---- MODULE Spec2Model ----
(***************************************************************************)
(* Model of the concurrent search-and-validate pipeline of the "top"       *)
(* collector: LinkCollector (run_top.py), get_top_links /                  *)
(* YandexLinkCollector (get_link_top.py), BatchYandexMetrikaChecker        *)
(* (check_yandex_metrika.py) and WebDriverManager (webdriver_manager.py).  *)
(* The service collector (yandex_service_collect/run.py) has the same      *)
(* partition, retry, stall and lock structure.                             *)
(***************************************************************************)
EXTENDS Integers, Sequences, FiniteSets, TLC

\* ------------------------------------------------------------------ bounds
\* longest backlog and largest pool explored by the pool specification
MaxQueries == 2
MaxThreads == 2
\* longest backlog explored by the single-worker specification
WorkerMaxQueries == 2
\* longest backlog explored by the solver specification
SolverMaxQueries == 1
\* longest backlog and largest pool explored by the partition specification
PartMaxQueries == 10
PartMaxThreads == 5
\* max_links_per_query handed to the collector
MaxLinksPerQuery == 2
\* stalls and exceptions the environment produces in one run of the pool
PoolDisturbances == 1
\* longest list of result items handed to the transport check
MaxCandidates == 3
\* passes of the transport check applied in a row
TransportPasses == 2
\* largest number the solving service answers with
MaxCount == 2
\* longest host name and domain given to the domain filter, in letters
MaxNameLen == 2
\* CAPCHA_NOT_READY answers before the last answer of the result endpoint
MaxPending == 1
\* identities set aside for the webdriver objects of one thread
IdsPerThread == 8

\* ------------------------------------------------------- program constants
\* for attempt in range(3)
MAX_ATTEMPTS_PER_QUERY == 3
\* if elapsed_time > 300
MAX_TIMEOUT_PER_REQUEST == 300
SEARCH_MAX_ATTEMPTS == 3
\* the page-load timeouts of get_yandex_links, in seconds
SEARCH_TIMEOUT == 60
DEFAULT_TIMEOUT_AFTER_SEARCH == 300
\* max_attempts = CAPTCHA_MAX_ATTEMPTS
CAPTCHA_MAX_ATTEMPTS == 5

\* "no object" (Python None) for driver references and the lock holder
None == 0
\* an open browser session that no object refers to any more
Orphan == -1

Min(a, b) == IF a < b THEN a ELSE b

\* ---------------------------------------------------------------- state
VARIABLES
  queries,        \* the loaded backlog: a sequence of query ids
  num_threads,    \* LinkCollector.num_threads
  runPc,          \* position of LinkCollector.run
  slices,         \* slices[k]: the subset_queries given to thread k
  started,        \* number of threads started by run
  pc,             \* pc[w]: position of worker w
  qi,             \* qi[w]: index in its slice of the query being processed
  attempt,        \* attempt[w]: iterations of "for attempt in range(3)" begun
  sattempt,       \* sattempt[w]: iterations of the collector's loop begun
  driver,         \* driver[w]: the worker's search session (or None)
  chrome,         \* chrome[w]: BatchYandexMetrikaChecker.driver (or None)
  candidates,     \* candidates[w]: candidate_links of the current attempt
  bi,             \* bi[w]: links of the batch already checked
  results,        \* results[w]: the batch's dict {url: has_metrika}
  links,          \* links[w]: list returned by get_top_links
  processed,      \* processed[w]: flag returned by get_top_links
  outcome,        \* outcome[w]: how the collector's loop ended
  elapsed,        \* elapsed[w]: measured wall time of the attempt
  wi,             \* wi[w]: lines of links[w] already written
  lock,           \* holder of LinkCollector.lock (or None)
  sink,           \* content of the result file, one line per element
  openSessions,   \* browser sessions that are currently open
  chromeInstance, \* WebDriverManager._chrome_instance
  firefoxInstance,\* WebDriverManager._firefox_instance
  inspected,      \* inspected[w]: processed_count of the last collection
  calls,          \* calls[w]: get_top_links calls made for the current query
  initCalls,      \* initCalls[w]: init_driver calls made by the worker
  stalls,         \* stalls[w]: stalled attempts the worker has handled
  faulted,        \* faulted[w]: an exception reached the worker
  disturbed,      \* stalls and exceptions the environment has produced
  written,        \* written[w]: lines whose write call returned
  challenge,      \* challenge[w]: the challenge page in the browser of w
  cpc,            \* cpc[w]: position of CaptchaSolver.handle_captcha
  cattempts,      \* cattempts[w]: attempts of handle_captcha
  kind,           \* kind[w]: the challenge the current cycle found
  answer,         \* answer[w]: what the solving service returned this round
  tick,           \* tick[w]: alternates with every pending poll
  final,          \* final[w]: how the last handle_captcha ended
  unresolved,     \* unresolved[w]: the page has shown the challenge throughout
  cfaulted,       \* cfaulted[w]: a browser call of this handle_captcha failed
  navs,           \* navs[w]: search navigations made for the current query
  matchIn,        \* result items and domain given to _find_matching_links
  matchOut,       \* what _find_matching_links returned for them
  capIn,          \* type, API key and service answers of a solve_captcha call
  capOut,         \* what solve_captcha did and returned for them
  timeout,        \* timeout[w]: page-load timeout of the search session
  navUnder,       \* navUnder[w]: the timeout under which the last search ran
  actions,        \* actions[w]: submissions, clicks and typing of this cycle
  count,          \* count[w]: the number in the service's response
  polled,         \* polled[w]: the answer to the last poll of this round
  navigated,      \* navigated[w]: URLs the batch's driver.get was called with
  created,        \* created[w]: browser sessions created for the batch
  phaseIn,        \* the items handed to _collect_and_filter_by_https
  phaseOut        \* what each pass of the transport check returned

poolVars == <<queries, num_threads, runPc, slices, started>>
queryVars == <<qi, attempt, calls>>
collectVars == <<sattempt, candidates, inspected>>
batchVars == <<bi, results, navigated, created>>
returnVars == <<links, processed, outcome, elapsed>>
firefoxVars == <<driver, firefoxInstance, initCalls>>
chromeVars == <<chrome, chromeInstance>>
workerVars == <<pc, qi, attempt, sattempt, candidates, bi, results, links,
                processed, outcome, elapsed, wi, inspected, calls, navigated,
                created>>
sessionVars == <<driver, chrome, openSessions, chromeInstance,
                 firefoxInstance, initCalls>>
sinkVars == <<lock, sink, written>>
ghostVars == <<stalls, faulted, disturbed>>
solverVars == <<challenge, cpc, cattempts, kind, answer, tick, final, unresolved,
                cfaulted, actions, count, polled>>
transportVars == <<phaseIn, phaseOut>>
timeoutVars == <<timeout, navUnder>>
matchVars == <<matchIn, matchOut>>
capsolaVars == <<capIn, capOut>>
countVars == <<navs>>
vars == <<poolVars, workerVars, sessionVars, sinkVars, ghostVars, solverVars,
          transportVars, timeoutVars, matchVars, capsolaVars, countVars>>

Workers == 1..num_threads

\* ------------------------------------------------------------- partition
\* Python's seq[start:end] for 0 <= start, 0 <= end
PySlice(seq, start, end) ==
  SubSeq(seq, start + 1, Min(end, Len(seq)))

\* variant of SliceEnd in which the last thread gets no remainder
SliceEndNoRemainder(i, n, len) == (i + 1) * (len \div n)

\* end = len(queries) if i == num_threads - 1 else (i + 1) * queries_per_thread
SliceEnd(i, n, len) ==
  IF i = n - 1 THEN len ELSE (i + 1) * (len \div n)

\* variant of SliceStart that rounds queries_per_thread up
SliceStartCeil(i, n, len) == i * ((len + n - 1) \div n)

\* start = i * queries_per_thread
SliceStart(i, n, len) == i * (len \div n)

\* variant of CreateSlices that creates no thread without a query
CreateSlicesNoIdle(qs, n) ==
  [k \in 1..Min(n, Len(qs)) |->
     PySlice(qs, SliceStart(k - 1, Min(n, Len(qs)), Len(qs)),
             SliceEnd(k - 1, Min(n, Len(qs)), Len(qs)))]

\* the subset_queries of every thread, thread k of 1..n being Python's i = k-1
CreateSlices(qs, n) ==
  [k \in 1..n |->
     PySlice(qs, SliceStart(k - 1, n, Len(qs)), SliceEnd(k - 1, n, Len(qs)))]

\* what the browser shows of a challenge: the verification button, the
\* challenge form, the markers of the three kinds of challenge, and the
\* search header that appears once the challenge is cleared
NoPage ==
  [button |-> FALSE, form |-> FALSE, markers |-> {}, solved |-> FALSE]

WorkerInit(n) ==
  /\ pc = [w \in 1..n |-> "idle"]
  /\ qi = [w \in 1..n |-> 0]
  /\ attempt = [w \in 1..n |-> 0]
  /\ sattempt = [w \in 1..n |-> 0]
  /\ driver = [w \in 1..n |-> None]
  /\ chrome = [w \in 1..n |-> None]
  /\ candidates = [w \in 1..n |-> <<>>]
  /\ bi = [w \in 1..n |-> 0]
  /\ results = [w \in 1..n |-> <<>>]
  /\ links = [w \in 1..n |-> <<>>]
  /\ processed = [w \in 1..n |-> FALSE]
  /\ outcome = [w \in 1..n |-> "none"]
  /\ elapsed = [w \in 1..n |-> 0]
  /\ wi = [w \in 1..n |-> 0]
  /\ inspected = [w \in 1..n |-> 0]
  /\ calls = [w \in 1..n |-> 0]
  /\ initCalls = [w \in 1..n |-> 0]
  /\ stalls = [w \in 1..n |-> 0]
  /\ faulted = [w \in 1..n |-> FALSE]
  /\ written = [w \in 1..n |-> <<>>]
  /\ challenge = [w \in 1..n |-> NoPage]
  /\ cpc = [w \in 1..n |-> "idle"]
  /\ cattempts = [w \in 1..n |-> 0]
  /\ kind = [w \in 1..n |-> "none"]
  /\ answer = [w \in 1..n |-> "none"]
  /\ tick = [w \in 1..n |-> 0]
  /\ final = [w \in 1..n |-> "none"]
  /\ unresolved = [w \in 1..n |-> FALSE]
  /\ cfaulted = [w \in 1..n |-> FALSE]
  /\ timeout = [w \in 1..n |-> None]
  /\ navs = [w \in 1..n |-> 0]
  /\ navUnder = [w \in 1..n |-> None]
  /\ actions = [w \in 1..n |-> <<>>]
  /\ count = [w \in 1..n |-> 0]
  /\ polled = [w \in 1..n |-> "none"]
  /\ navigated = [w \in 1..n |-> <<>>]
  /\ created = [w \in 1..n |-> 0]

InitProgram(maxLen, maxThreads) ==
  /\ \E len \in 0..maxLen : queries = [i \in 1..len |-> i]
  /\ num_threads \in 1..maxThreads
  /\ runPc = "create"
  /\ slices = <<>>
  /\ started = 0
  /\ WorkerInit(num_threads)
  /\ lock = None
  /\ sink = <<>>
  /\ openSessions = {}
  /\ chromeInstance = None
  /\ firefoxInstance = None
  /\ disturbed = 0

\* no call of _find_matching_links is under way
NoMatchInput == [items |-> <<>>, domain |-> <<>>]

\* no call of solve_captcha is under way
NoCall ==
  [type |-> "", key |-> FALSE, fetch |-> "", create |-> "", result |-> "",
   pending |-> 0]

\* LinkCollector constructed; no transport check is under way
InitWith(maxLen, maxThreads) ==
  /\ InitProgram(maxLen, maxThreads)
  /\ phaseIn = <<>>
  /\ phaseOut = <<>>
  /\ matchIn = NoMatchInput
  /\ matchOut = <<>>
  /\ capIn = NoCall
  /\ capOut = <<>>

\* threads = self._create_threads(queries)
CreateThreads ==
  /\ runPc = "create"
  /\ slices' = CreateSlices(queries, num_threads)
  /\ runPc' = "start"
  /\ UNCHANGED <<queries, num_threads, started>>
  /\ UNCHANGED <<workerVars, sessionVars, sinkVars, ghostVars, solverVars,
               transportVars, timeoutVars, matchVars, capsolaVars, countVars>>

\* for thread in threads: thread.start()
StartThread ==
  /\ runPc = "start"
  /\ started < num_threads
  /\ started' = started + 1
  /\ pc' = [pc EXCEPT ![started + 1] = "init"]
  /\ runPc' = IF started + 1 = num_threads THEN "join" ELSE "start"
  /\ UNCHANGED <<queries, num_threads, slices>>
  /\ UNCHANGED <<queryVars, collectVars, batchVars, returnVars, wi>>
  /\ UNCHANGED <<sessionVars, sinkVars, ghostVars, solverVars,
               transportVars, timeoutVars, matchVars, capsolaVars, countVars>>

\* variant of JoinThreads that waits for the first thread only
JoinThreadsFirstOnly ==
  /\ runPc = "join"
  /\ pc[1] = "done"
  /\ runPc' = "returned"
  /\ UNCHANGED <<queries, num_threads, slices, started>>
  /\ UNCHANGED <<workerVars, sessionVars, sinkVars, ghostVars, solverVars,
               transportVars, timeoutVars, matchVars, capsolaVars, countVars>>

\* for thread in threads: thread.join()
JoinThreads ==
  /\ runPc = "join"
  /\ \A w \in Workers : pc[w] = "done"
  /\ runPc' = "returned"
  /\ UNCHANGED <<queries, num_threads, slices, started>>
  /\ UNCHANGED <<workerVars, sessionVars, sinkVars, ghostVars, solverVars,
               transportVars, timeoutVars, matchVars, capsolaVars, countVars>>

\* ------------------------------------------------------ browser sessions
Referenced ==
  (openSessions \cup {driver[w] : w \in Workers} \cup
   {chrome[w] : w \in Workers} \cup {chromeInstance, firefoxInstance})
  \ {None}

\* identities of the webdriver objects constructed by thread w
SessionIds(w) == {IdsPerThread * w + k : k \in 0..(IdsPerThread - 1)}

\* identity of a webdriver object newly constructed by thread w: the first
\* of the thread's identities that no reference holds
NewSessionId(w) ==
  CHOOSE i \in SessionIds(w) :
    /\ i \notin Referenced
    /\ \A j \in SessionIds(w) : j < i => j \in Referenced

\* variants in which the manager hands out its cached instance
FirefoxReuseShared == TRUE
ChromeReuseShared == TRUE

\* init_driver() -> get_firefox_driver(headless=False, reuse=False)
FirefoxReuse == FALSE

\* get_chrome_driver(headless=True, timeout=...) with reuse=False
ChromeReuse == FALSE

\* if reuse and cls._instance: return cls._instance, else a new driver
GetDriver(w, reuse, instance) ==
  IF reuse /\ instance # None THEN instance ELSE NewSessionId(w)

\* if reuse: cls._instance = driver
StoreInstance(reuse, instance, d) == IF reuse THEN d ELSE instance

\* the environment produces a stall or an exception: allowed while the
\* budget of the environment lasts (a budget of 0 is no limit)
CanDisturb(env) == env.budget > 0 => disturbed < env.budget

\* the environment spends n units of its budget in this step
Spend(env, n) ==
  /\ (env.budget > 0 /\ n > 0) => disturbed + n <= env.budget
  /\ disturbed' = IF env.budget > 0 THEN disturbed + n ELSE disturbed

Cost(raised) == IF raised THEN 1 ELSE 0

\* outcomes of driver.quit(): the session is closed, or quit raised and the
\* session is in either state
QuitOutcomes(d, env) ==
  {[raised |-> FALSE, open |-> openSessions \ {d}]} \cup
  IF CanDisturb(env)
  THEN {[raised |-> TRUE, open |-> openSessions \ {d}],
        [raised |-> TRUE, open |-> openSessions]}
  ELSE {}

\* the open sessions once the last reference to session d is dropped
Dropped(open, d) ==
  IF d \in open THEN (open \ {d}) \cup {Orphan} ELSE open

\* -------------------------------------------------------- result pages
Hosts == {"static", "js", "plain", "down", "gone", "nohead"}
Schemes == {"http", "https", "ftp"}
Hrefs == [scheme : Schemes, host : Hosts]
NoHref == [scheme |-> "", host |-> ""]
Items == Hrefs \cup {NoHref}
\* Python None where a URL is expected
NoUrl == NoHref

Url(scheme, host) == [scheme |-> scheme, host |-> host]

\* the result pages the search endpoint can answer with: no result; items
\* none of which yields a secure link; one insecure link with a reachable
\* secure variant; secure links with and without the marker; more links than
\* any max_links explored, the first of them twice
Pages ==
  {<<>>,
   <<NoHref, Url("http", "down")>>,
   <<Url("http", "static")>>,
   <<Url("https", "plain"), NoHref, Url("https", "js")>>,
   <<Url("https", "js"), Url("https", "js"), Url("http", "down"),
     Url("https", "static"), Url("https", "plain")>>}

\* the request raised: there is no response and no status code
NoResponse == 0

\* status code of requests.head(url): no adapter for schemes other than http
\* and https, "down" does not answer, "nohead" breaks off HEAD requests,
\* "gone" answers 404
HeadStatus(url) ==
  IF url.scheme \notin {"http", "https"} \/ url.host \in {"down", "nohead"}
  THEN NoResponse
  ELSE IF url.host = "gone" THEN 404 ELSE 200

\* status code of requests.get(url)
GetStatus(url) ==
  IF url.scheme \notin {"http", "https"} \/ url.host = "down"
  THEN NoResponse
  ELSE IF url.host = "gone" THEN 404 ELSE 200

\* requests.head(https_url).status_code < 400, no exception
HeadOk(url) == HeadStatus(url) # NoResponse /\ HeadStatus(url) < 400

\* requests.get(url) answers 200 and the body carries a metrika signature
StaticMetrika(url) == url.host = "static"

\* variant of QuickCheckViaRequests that never finds the signature
QuickCheckSkipped(url) == FALSE

\* _quick_check_via_requests
QuickCheckViaRequests(url) == StaticMetrika(url)

\* the rendered page carries a signature or answers a script probe
RenderedMetrika(url) == url.host \in {"static", "js"}

\* variant of CheckHttpsAvailability that accepts every status below 500
CheckHttpsAvailabilityLenient(https_url) ==
  HeadStatus(https_url) # NoResponse /\ HeadStatus(https_url) < 500

\* variant of CheckHttpsAvailability with the body of _is_site_accessible,
\* which nothing calls: HEAD, and GET when the HEAD request raised
IsSiteAccessible(url) ==
  IF HeadStatus(url) # NoResponse THEN HeadStatus(url) < 400
  ELSE GetStatus(url) # NoResponse /\ GetStatus(url) < 400

\* _check_https_availability
CheckHttpsAvailability(https_url) == HeadOk(https_url)

\* url.replace('http://', 'https://')
ReplaceScheme(url) ==
  IF url.scheme = "http" THEN [url EXCEPT !.scheme = "https"] ELSE url

\* variant of EnsureHttps that keeps rewritten candidates only
EnsureHttpsRewrittenOnly(url) ==
  IF url.scheme = "https" THEN NoUrl
  ELSE IF CheckHttpsAvailability(ReplaceScheme(url)) THEN ReplaceScheme(url)
  ELSE NoUrl

\* _ensure_https: the https URL, or None (NoUrl)
EnsureHttps(url) ==
  IF url.scheme = "https" THEN url
  ELSE IF CheckHttpsAvailability(ReplaceScheme(url)) THEN ReplaceScheme(url)
  ELSE NoUrl

\* the URLs _ensure_https sends a HEAD request to
EnsureHttpsProbes(url) ==
  IF url.scheme = "https" THEN <<>> ELSE <<ReplaceScheme(url)>>

\* variant of CollectStep that counts no inspected link
CollectStepUncounted(acc, item, max_links) ==
  IF acc.count >= max_links \/ item = NoHref THEN acc
  ELSE [count |-> acc.count,
        links |-> IF EnsureHttps(item) # NoUrl
                  THEN Append(acc.links, EnsureHttps(item)) ELSE acc.links,
        heads |-> acc.heads \o EnsureHttpsProbes(item)]

\* one iteration of "for item in search_items"
CollectStep(acc, item, max_links) ==
  IF acc.count >= max_links \/ item = NoHref THEN acc
  ELSE [count |-> acc.count + 1,
        links |-> IF EnsureHttps(item) # NoUrl
                  THEN Append(acc.links, EnsureHttps(item)) ELSE acc.links,
        heads |-> acc.heads \o EnsureHttpsProbes(item)]

RECURSIVE CollectFrom(_, _, _, _)
CollectFrom(page, i, acc, max_links) ==
  IF i > Len(page) THEN acc
  ELSE CollectFrom(page, i + 1, CollectStep(acc, page[i], max_links),
                   max_links)

\* _collect_and_filter_by_https: processed_count and https_links, and the
\* HEAD requests sent on the way
CollectAndFilterByHttps(page, max_links) ==
  CollectFrom(page, 1, [count |-> 0, links |-> <<>>, heads |-> <<>>],
              max_links)

\* ------------------------------------------------------------ the worker
\* variant of CurrentQuery that walks the slice from its end
CurrentQueryReversed(w) == slices[w][Len(slices[w]) + 1 - qi[w]]

\* the query worker w is processing
CurrentQuery(w) == slices[w][qi[w]]

\* variant of RangeHasNext with one iteration too many
RangeHasNextOffByOne(a) == a <= MAX_ATTEMPTS_PER_QUERY

\* for attempt in range(3): another iteration is left
RangeHasNext(a) == a < MAX_ATTEMPTS_PER_QUERY

\* variant of Stalled that also treats the bound itself as a stall
StalledAtBound(t) == t >= MAX_TIMEOUT_PER_REQUEST

\* if elapsed_time > 300
Stalled(t) == t > MAX_TIMEOUT_PER_REQUEST

\* get_top_links returns (lnks, flag) to the worker, which measures the time;
\* d exceptions were raised on the way
Return(w, lnks, flag, out, env, d) ==
  /\ links' = [links EXCEPT ![w] = lnks]
  /\ processed' = [processed EXCEPT ![w] = flag]
  /\ outcome' = [outcome EXCEPT ![w] = out]
  /\ pc' = [pc EXCEPT ![w] = "returned"]
  /\ \E t \in env.times :
       /\ elapsed' = [elapsed EXCEPT ![w] = t]
       /\ Spend(env, d + Cost(t > MAX_TIMEOUT_PER_REQUEST))

\* WebDriverManager.init_driver() succeeds for worker w
InitDriverOk(w) ==
  /\ driver' = [driver EXCEPT ![w] = GetDriver(w, FirefoxReuse, firefoxInstance)]
  /\ openSessions' = openSessions \cup {GetDriver(w, FirefoxReuse, firefoxInstance)}
  /\ firefoxInstance' = StoreInstance(FirefoxReuse, firefoxInstance,
                                      GetDriver(w, FirefoxReuse, firefoxInstance))
  /\ initCalls' = [initCalls EXCEPT ![w] = @ + 1]

\* variant of InitDriverRaises in which the worker goes on with its queries
InitDriverRaisesContinues(w, env) ==
  /\ initCalls' = [initCalls EXCEPT ![w] = @ + 1]
  /\ pc' = [pc EXCEPT ![w] = "loop"]
  /\ faulted' = [faulted EXCEPT ![w] = TRUE]
  /\ Spend(env, 1)
  /\ UNCHANGED <<driver, openSessions, firefoxInstance>>

\* WebDriverManager.init_driver() raises: the exception reaches the worker
InitDriverRaises(w, env) ==
  /\ initCalls' = [initCalls EXCEPT ![w] = @ + 1]
  /\ pc' = [pc EXCEPT ![w] = "finally"]
  /\ faulted' = [faulted EXCEPT ![w] = TRUE]
  /\ Spend(env, 1)
  /\ UNCHANGED <<driver, openSessions, firefoxInstance>>

\* driver = WebDriverManager.init_driver() at the top of worker
WorkerInitDriver(w, env) ==
  /\ pc[w] = "init"
  /\ \/ /\ InitDriverOk(w)
        /\ pc' = [pc EXCEPT ![w] = "loop"]
        /\ Spend(env, 0)
        /\ UNCHANGED faulted
     \/ InitDriverRaises(w, env)
  /\ UNCHANGED <<transportVars, timeoutVars, matchVars, capsolaVars, countVars,
                 solverVars, poolVars,
                 queryVars, collectVars, batchVars, returnVars, wi,
                 chromeVars, sinkVars, stalls>>

\* for query in queries: the next query of the slice, or the end of the loop
WorkerNextQuery(w) ==
  /\ pc[w] = "loop"
  /\ IF qi[w] < Len(slices[w])
     THEN /\ qi' = [qi EXCEPT ![w] = @ + 1]
          /\ pc' = [pc EXCEPT ![w] = "attempt"]
     ELSE /\ pc' = [pc EXCEPT ![w] = "finally"]
          /\ UNCHANGED qi
  /\ attempt' = [attempt EXCEPT ![w] = 0]
  /\ calls' = [calls EXCEPT ![w] = 0]
  /\ elapsed' = [elapsed EXCEPT ![w] = 0]
  /\ links' = [links EXCEPT ![w] = <<>>]
  /\ processed' = [processed EXCEPT ![w] = FALSE]
  /\ outcome' = [outcome EXCEPT ![w] = "none"]
  /\ wi' = [wi EXCEPT ![w] = 0]
  /\ navs' = [navs EXCEPT ![w] = 0]
  /\ UNCHANGED <<transportVars, timeoutVars, matchVars, capsolaVars, solverVars, poolVars,
                 collectVars, batchVars, sessionVars, sinkVars,
                 ghostVars>>

\* for attempt in range(3): links, processed_successfully = get_top_links(...)
\* up to the construction of YandexLinkCollector
WorkerAttempt(w, env) ==
  /\ pc[w] = "attempt"
  /\ IF RangeHasNext(attempt[w])
     THEN /\ attempt' = [attempt EXCEPT ![w] = @ + 1]
          /\ calls' = [calls EXCEPT ![w] = @ + 1]
          /\ sattempt' = [sattempt EXCEPT ![w] = 0]
          /\ inspected' = [inspected EXCEPT ![w] = 0]
          /\ \/ /\ pc' = [pc EXCEPT ![w] = "search"]
                /\ elapsed' = [elapsed EXCEPT ![w] = 0]
                /\ links' = [links EXCEPT ![w] = <<>>]
                /\ processed' = [processed EXCEPT ![w] = FALSE]
                /\ outcome' = [outcome EXCEPT ![w] = "none"]
                /\ Spend(env, 0)
             \/ \* the constructor raised: except Exception: return [], False
                /\ env.searchFaults
                /\ Return(w, <<>>, FALSE, "raised", env, 1)
     ELSE /\ pc' = [pc EXCEPT ![w] = "loop"]
          /\ Spend(env, 0)
          /\ UNCHANGED <<attempt, calls, sattempt, inspected, returnVars>>
  /\ UNCHANGED <<transportVars, timeoutVars, matchVars, capsolaVars, countVars,
                 solverVars, poolVars,
                 qi, candidates, batchVars, wi, sessionVars,
                 sinkVars, stalls, faulted>>

\* variant of SearchRetryOrGiveUp that reports the exhausted loop as a failure
SearchRetryOrGiveUpFailing(w, env, d) ==
  IF sattempt'[w] < SEARCH_MAX_ATTEMPTS
  THEN /\ pc' = [pc EXCEPT ![w] = "search"]
       /\ Spend(env, d)
       /\ UNCHANGED returnVars
  ELSE Return(w, <<>>, FALSE, "exhausted", env, d)

\* variant of SearchRetryOrGiveUp with one more iteration
SearchRetryOrGiveUpOneMore(w, env, d) ==
  IF sattempt'[w] <= SEARCH_MAX_ATTEMPTS
  THEN /\ pc' = [pc EXCEPT ![w] = "search"]
       /\ Spend(env, d)
       /\ UNCHANGED returnVars
  ELSE Return(w, <<>>, TRUE, "exhausted", env, d)

\* the collector's loop ran out (or its last iteration raised): found_links
\* is still [], and get_top_links returns (links, True)
SearchRetryOrGiveUp(w, env, d) ==
  IF sattempt'[w] < SEARCH_MAX_ATTEMPTS
  THEN /\ pc' = [pc EXCEPT ![w] = "search"]
       /\ Spend(env, d)
       /\ UNCHANGED returnVars
  ELSE Return(w, <<>>, TRUE, "exhausted", env, d)

\* links, processed_successfully = self._find_and_check_links(max_links), up
\* to the entry of _batch_check_metrika, and what get_yandex_links does when
\* it found no candidate
Collect(w, env) ==
  \E page \in env.pages :
    LET c == CollectAndFilterByHttps(page, MaxLinksPerQuery) IN
    /\ inspected' = [inspected EXCEPT ![w] = c.count]
    /\ IF c.links = <<>>
       THEN /\ SearchRetryOrGiveUp(w, env, 0)
            /\ UNCHANGED candidates
       ELSE /\ candidates' = [candidates EXCEPT ![w] = c.links]
            /\ pc' = [pc EXCEPT ![w] = "batch_enter"]
            /\ Spend(env, 0)
            /\ UNCHANGED returnVars

\* the page on which check_captcha_present() finds the verification button
VerificationPage ==
  [button |-> TRUE, form |-> FALSE, markers |-> {}, solved |-> FALSE]

\* handle_captcha is entered: attempts and the round's locals do not exist yet
SolverEntry(w) ==
  /\ challenge' = [challenge EXCEPT ![w] = VerificationPage]
  /\ cpc' = [cpc EXCEPT ![w] = "click"]
  /\ cattempts' = [cattempts EXCEPT ![w] = 0]
  /\ kind' = [kind EXCEPT ![w] = "none"]
  /\ answer' = [answer EXCEPT ![w] = "none"]
  /\ final' = [final EXCEPT ![w] = "none"]
  /\ unresolved' = [unresolved EXCEPT ![w] = TRUE]
  /\ cfaulted' = [cfaulted EXCEPT ![w] = FALSE]
  /\ actions' = [actions EXCEPT ![w] = <<>>]
  /\ count' = [count EXCEPT ![w] = 0]
  /\ polled' = [polled EXCEPT ![w] = "none"]
  /\ UNCHANGED tick

\* self.driver.set_page_load_timeout(SEARCH_TIMEOUT); self._perform_search
SearchUnderShortTimeout(w) ==
  /\ navUnder' = [navUnder EXCEPT ![w] = SEARCH_TIMEOUT]
  /\ navs' = [navs EXCEPT ![w] = @ + 1]

\* variant of ResetTimeout that leaves the search timeout in force
ResetTimeoutSkipped(w) ==
  timeout' = [timeout EXCEPT ![w] = SEARCH_TIMEOUT]

\* self.driver.set_page_load_timeout(DEFAULT_TIMEOUT_AFTER_SEARCH)
ResetTimeout(w) ==
  timeout' = [timeout EXCEPT ![w] = DEFAULT_TIMEOUT_AFTER_SEARCH]

\* one iteration of "for attempt in range(max_attempts)" in get_yandex_links,
\* up to the entry of handle_captcha or, without a challenge, of
\* _batch_check_metrika
CollectorSearch(w, env) ==
  /\ pc[w] = "search"
  /\ sattempt' = [sattempt EXCEPT ![w] = @ + 1]
  /\ \/ \* a call before the extraction raised
        /\ env.searchFaults
        /\ \/ \* the first set_page_load_timeout
              UNCHANGED <<timeoutVars, navs>>
           \/ \* _perform_search, or the second set_page_load_timeout
              /\ SearchUnderShortTimeout(w)
              /\ timeout' = [timeout EXCEPT ![w] = SEARCH_TIMEOUT]
           \/ \* check_captcha_present
              /\ SearchUnderShortTimeout(w)
              /\ ResetTimeout(w)
        /\ inspected' = [inspected EXCEPT ![w] = 0]
        /\ SearchRetryOrGiveUp(w, env, 1)
        /\ UNCHANGED <<candidates, solverVars>>
     \/ \* check_captcha_present() is False
        /\ SearchUnderShortTimeout(w)
        /\ ResetTimeout(w)
        /\ Collect(w, env)
        /\ UNCHANGED solverVars
     \/ \* check_captcha_present() is True: the verification button is there
        /\ env.challenges # {}
        /\ SearchUnderShortTimeout(w)
        /\ ResetTimeout(w)
        /\ SolverEntry(w)
        /\ pc' = [pc EXCEPT ![w] = "captcha"]
        /\ Spend(env, 0)
        /\ UNCHANGED <<candidates, inspected, returnVars>>
  /\ UNCHANGED <<transportVars, matchVars, capsolaVars, poolVars, queryVars, batchVars,
                 wi, sessionVars, sinkVars, stalls, faulted>>

\* ------------------------------------------------- the challenge solver
\* the pages the browser can show after the verification button was clicked:
\* without the form, with the form and the search bar, and with the form and
\* the markers of one or two challenge types
ChallengeMarkers ==
  {{}, {"image"}, {"text"}, {"puzzle"}, {"image", "text"}, {"text", "puzzle"}}

ChallengePages ==
  {[button |-> FALSE, form |-> FALSE, markers |-> {}, solved |-> s] :
     s \in BOOLEAN} \cup
  {[button |-> FALSE, form |-> TRUE, markers |-> {}, solved |-> TRUE]} \cup
  {[button |-> FALSE, form |-> TRUE, markers |-> m, solved |-> FALSE] :
     m \in ChallengeMarkers}

\* what _is_captcha_form_present and _is_captcha_solved can return when the
\* page holds the element or not: find_elements may raise, which reads as False
Reads(b) == {b, FALSE}

\* variant of SolverReturn in which get_yandex_links gives the attempt up
\* when the solver is exhausted
SolverReturnAborts(w, how) ==
  /\ final' = [final EXCEPT ![w] = how]
  /\ cpc' = [cpc EXCEPT ![w] = "idle"]
  /\ pc' = [pc EXCEPT ![w] = IF how = "exhausted" THEN "search" ELSE "collect"]
  /\ UNCHANGED <<transportVars, timeoutVars, matchVars, capsolaVars, countVars,
                 poolVars, queryVars, collectVars, batchVars,
                 returnVars, wi, sessionVars, sinkVars, ghostVars>>

\* handle_captcha returns to get_yandex_links
SolverReturn(w, how) ==
  /\ final' = [final EXCEPT ![w] = how]
  /\ cpc' = [cpc EXCEPT ![w] = "idle"]
  /\ pc' = [pc EXCEPT ![w] = "collect"]
  /\ UNCHANGED <<transportVars, timeoutVars, matchVars, capsolaVars, countVars,
                 poolVars, queryVars, collectVars, batchVars,
                 returnVars, wi, sessionVars, sinkVars, ghostVars>>

\* handle_captcha goes on inside
SolverStep(w, to) ==
  /\ cpc' = [cpc EXCEPT ![w] = to]
  /\ UNCHANGED <<transportVars, timeoutVars, matchVars, capsolaVars, countVars,
                 final, poolVars, workerVars, sessionVars,
                 sinkVars, ghostVars>>

\* the page after a click: the ghost follows whether the challenge is still up
ShowPage(w, c) ==
  /\ challenge' = [challenge EXCEPT ![w] = c]
  /\ unresolved' = [unresolved EXCEPT ![w] = @ /\ c.form /\ ~c.solved]

BrowserFault(w, raised) ==
  cfaulted' = [cfaulted EXCEPT ![w] = @ \/ raised]

\* variant of ClickVerificationButton that does not re-raise
ClickVerificationButtonSwallows(w, env) ==
  /\ pc[w] = "captcha"
  /\ cpc[w] = "click"
  /\ \/ /\ \E c \in env.challenges : ShowPage(w, c)
        /\ BrowserFault(w, FALSE)
     \/ /\ BrowserFault(w, TRUE)
        /\ UNCHANGED <<challenge, unresolved>>
  /\ SolverStep(w, "wait_form")
  /\ UNCHANGED <<cattempts, kind, answer, tick, actions, count, polled>>

\* self._click_verification_button()
ClickVerificationButton(w, env) ==
  /\ pc[w] = "captcha"
  /\ cpc[w] = "click"
  /\ \/ \* clicked: the browser shows what the site answers
        /\ \E c \in env.challenges : ShowPage(w, c)
        /\ BrowserFault(w, FALSE)
        /\ SolverStep(w, "wait_form")
     \/ \* the button was not clickable or the click raised: re-raised, and
        \* caught by the except clause of handle_captcha
        /\ BrowserFault(w, TRUE)
        /\ SolverReturn(w, "aborted")
        /\ UNCHANGED <<challenge, unresolved>>
  /\ UNCHANGED <<cattempts, kind, answer, tick, actions, count, polled>>

\* self.wait.until(presence_of_element_located(form)); attempts = 0
WaitForm(w, env) ==
  /\ pc[w] = "captcha"
  /\ cpc[w] = "wait_form"
  /\ \E read \in Reads(challenge[w].form) :
       /\ BrowserFault(w, read # challenge[w].form)
       /\ IF read THEN SolverStep(w, "loop") ELSE SolverReturn(w, "no_form")
  /\ UNCHANGED <<challenge, cattempts, kind, answer, tick, unresolved,
                 actions, count, polled>>

\* variant of LoopGoesOn that lets one more cycle begin
LoopGoesOnInclusive(present, attempts) ==
  present /\ attempts <= CAPTCHA_MAX_ATTEMPTS

\* while self._is_captcha_form_present() and attempts < max_attempts
LoopGoesOn(present, attempts) ==
  present /\ attempts < CAPTCHA_MAX_ATTEMPTS

\* the loop test and attempts += 1
LoopTest(w, env) ==
  /\ pc[w] = "captcha"
  /\ cpc[w] = "loop"
  /\ \E read \in Reads(challenge[w].form) :
       /\ BrowserFault(w, read # challenge[w].form)
       /\ IF LoopGoesOn(read, cattempts[w])
          THEN /\ cattempts' = [cattempts EXCEPT ![w] = @ + 1]
               /\ SolverStep(w, "classify")
          ELSE /\ SolverStep(w, "after_loop")
               /\ UNCHANGED cattempts
  /\ kind' = [kind EXCEPT ![w] = "none"]
  /\ answer' = [answer EXCEPT ![w] = "none"]
  /\ actions' = [actions EXCEPT ![w] = <<>>]
  /\ count' = [count EXCEPT ![w] = 0]
  /\ polled' = [polled EXCEPT ![w] = "none"]
  /\ UNCHANGED <<challenge, tick, unresolved>>

\* variant of Classification that looks for the text widget first
ClassificationTextFirst(c, solved) ==
  IF "text" \in c.markers THEN "text"
  ELSE IF "image" \in c.markers THEN "image"
  ELSE IF "puzzle" \in c.markers THEN "puzzle"
  ELSE IF solved THEN "solved"
  ELSE "unknown"

\* the if / elif chain of the loop body
Classification(c, solved) ==
  IF "image" \in c.markers THEN "image"
  ELSE IF "text" \in c.markers THEN "text"
  ELSE IF "puzzle" \in c.markers THEN "puzzle"
  ELSE IF solved THEN "solved"
  ELSE "unknown"

\* variant of AfterClassification that tries a solve round on any page
AfterClassificationSolvesAny(k) ==
  CASE k = "solved" -> "after_loop"
    [] OTHER -> "solve"

\* where the loop body goes after the classification
AfterClassification(k) ==
  CASE k \in {"image", "text", "puzzle"} -> "solve"
    [] k = "solved" -> "after_loop"
    [] OTHER -> "check"

Classify(w, env) ==
  /\ pc[w] = "captcha"
  /\ cpc[w] = "classify"
  /\ \/ \* a marker lookup raised: except Exception of the loop body, sleep
        /\ BrowserFault(w, TRUE)
        /\ SolverStep(w, "check")
        /\ UNCHANGED kind
     \/ \E read \in Reads(challenge[w].solved) :
          LET k == Classification(challenge[w], read) IN
          /\ BrowserFault(w, read # challenge[w].solved)
          /\ kind' = [kind EXCEPT ![w] = k]
          /\ SolverStep(w, AfterClassification(k))
  /\ UNCHANGED <<challenge, cattempts, answer, tick, unresolved, actions,
                 count, polled>>

\* the cycle of worker w does e: a submission, a click or typing
Does(w, e) == actions' = [actions EXCEPT ![w] = @ \o e]

\* _solve_image_captcha, _solve_text_captcha, _solve_puzzle_captcha up to
\* the creation of the task in solve_captcha
SolveRound(w, env) ==
  /\ pc[w] = "captcha"
  /\ cpc[w] = "solve"
  /\ \/ \* the image element or the page source could not be read: caught
        \* by the except clause of _solve_*_captcha
        /\ BrowserFault(w, TRUE)
        /\ SolverStep(w, "check")
        /\ UNCHANGED <<answer, actions>>
     \/ \* no API key, or the image download failed:
        \* CapsolaResponse(success=False) without a task
        /\ BrowserFault(w, FALSE)
        /\ answer' = [answer EXCEPT ![w] = "failed"]
        /\ SolverStep(w, "check")
        /\ UNCHANGED actions
     \/ \* the task was posted and _create_task returned None:
        \* CapsolaResponse(success=False) without polling
        /\ BrowserFault(w, FALSE)
        /\ answer' = [answer EXCEPT ![w] = "failed"]
        /\ Does(w, <<"submit">>)
        /\ SolverStep(w, "check")
     \/ \* the task was posted and created
        /\ BrowserFault(w, FALSE)
        /\ Does(w, <<"submit">>)
        /\ SolverStep(w, "poll")
        /\ UNCHANGED answer
  /\ UNCHANGED <<challenge, cattempts, kind, tick, unresolved, count,
                 polled>>

\* the numbers a response to a challenge of kind k can hold: the repeat count
\* of a puzzle, the coordinate pairs of an image challenge
Counts(k) == IF k \in {"puzzle", "image"} THEN 0..MaxCount ELSE {0}

\* the answer to a poll is recorded
Polled(w, a) == polled' = [polled EXCEPT ![w] = a]

\* variant of PollFailed that polls again
PollFailedPollsAgain(w) ==
  /\ SolverStep(w, "poll")
  /\ UNCHANGED answer

\* _get_result returns None: CapsolaResponse(success=False)
PollFailed(w) ==
  /\ answer' = [answer EXCEPT ![w] = "failed"]
  /\ SolverStep(w, "check")

\* one iteration of "while True" in CapsolaAPI._get_result
GetResult(w, env) ==
  /\ pc[w] = "captcha"
  /\ cpc[w] = "poll"
  /\ \/ \* status 0 and CAPCHA_NOT_READY: sleep, and the next poll
        /\ Polled(w, "pending")
        /\ tick' = [tick EXCEPT ![w] = 1 - @]
        /\ SolverStep(w, "poll")
        /\ UNCHANGED <<answer, count>>
     \/ \* a status other than 0 and 1: neither if applies, the next poll
        /\ Polled(w, "other")
        /\ tick' = [tick EXCEPT ![w] = 1 - @]
        /\ SolverStep(w, "poll")
        /\ UNCHANGED <<answer, count>>
     \/ \* status 1: CapsolaResponse(success=True, data=result), whose
        \* response has the shape of the challenge type
        /\ Polled(w, "ready")
        /\ answer' = [answer EXCEPT ![w] = "good"]
        /\ \E c \in Counts(kind[w]) : count' = [count EXCEPT ![w] = c]
        /\ SolverStep(w, "act")
        /\ UNCHANGED tick
     \/ \* status 1 with a response of another shape
        /\ Polled(w, "ready")
        /\ answer' = [answer EXCEPT ![w] = "malformed"]
        /\ SolverStep(w, "act")
        /\ UNCHANGED <<tick, count>>
     \/ \* status 0 with a response other than CAPCHA_NOT_READY: None
        /\ Polled(w, "error")
        /\ PollFailed(w)
        /\ UNCHANGED <<tick, count>>
     \/ \* the request raised, the HTTP status is an error, or the body has
        \* no "status": the except clause returns None
        /\ Polled(w, "raised")
        /\ PollFailed(w)
        /\ UNCHANGED <<tick, count>>
  /\ UNCHANGED <<challenge, cattempts, kind, unresolved, cfaulted, actions>>

Repeat(e, n) == [i \in 1..n |-> e]

\* variant of Script with an inclusive range of shifts
ScriptInclusiveRange(k, c) ==
  CASE k = "image" -> Repeat("point", c) \o <<"confirm">>
    [] k = "text" -> <<"type", "confirm">>
    [] k = "puzzle" -> Repeat("shift", c + 1) \o <<"confirm_puzzle">>

\* what _solve_*_captcha does with a successful response holding c: a click
\* on every point and _click_confirm_button; send_keys and
\* _click_confirm_button; c clicks on button[1] of the puzzle and one click
\* on the puzzle's div[3]/div[1]/div[2]
Script(k, c) ==
  CASE k = "image" -> Repeat("point", c) \o <<"confirm">>
    [] k = "text" -> <<"type", "confirm">>
    [] k = "puzzle" -> Repeat("shift", c) \o <<"confirm_puzzle">>

\* the clicks, the typing and the confirm of _solve_*_captcha after a
\* successful response, then the position to; an exception among them is
\* caught by the except clause of _solve_*_captcha and leaves the rest undone
ActThen(w, env, to) ==
  /\ pc[w] = "captcha"
  /\ cpc[w] = "act"
  /\ IF answer[w] = "good"
     THEN \E done \in 0..Len(Script(kind[w], count[w])) :
            /\ Does(w, SubSeq(Script(kind[w], count[w]), 1, done))
            /\ BrowserFault(w, done < Len(Script(kind[w], count[w])))
     ELSE \* the response cannot be read: nothing is clicked or typed
          /\ BrowserFault(w, FALSE)
          /\ UNCHANGED actions
  /\ \E c \in env.challenges \cup {challenge[w]} : ShowPage(w, c)
  /\ SolverStep(w, to)
  /\ UNCHANGED <<cattempts, kind, answer, tick, count, polled>>

\* variant of Act after which the loop goes on without the solved test
ActSkipsCheck(w, env) == ActThen(w, env, "loop")

Act(w, env) == ActThen(w, env, "check")

\* if self._is_captcha_solved(): break; time.sleep(CAPTCHA_RETRY_DELAY)
Check(w, env) ==
  /\ pc[w] = "captcha"
  /\ cpc[w] = "check"
  /\ \E read \in Reads(challenge[w].solved) :
       /\ BrowserFault(w, read # challenge[w].solved)
       /\ SolverStep(w, IF read THEN "after_loop" ELSE "loop")
  /\ UNCHANGED <<challenge, cattempts, kind, answer, tick, unresolved,
                 actions, count, polled>>

\* if attempts >= max_attempts and self._is_captcha_form_present(): warning
AfterLoop(w, env) ==
  /\ pc[w] = "captcha"
  /\ cpc[w] = "after_loop"
  /\ \E read \in Reads(challenge[w].form) :
       /\ BrowserFault(w, read # challenge[w].form)
       /\ SolverReturn(w, IF cattempts[w] >= CAPTCHA_MAX_ATTEMPTS /\ read
                          THEN "exhausted" ELSE "ended")
  /\ UNCHANGED <<challenge, cattempts, kind, answer, tick, unresolved,
                 actions, count, polled>>

\* handle_captcha has returned: the same iteration goes on with
\* _find_and_check_links; the solver's locals are gone
CollectorCollect(w, env) ==
  /\ pc[w] = "collect"
  /\ UNCHANGED sattempt
  /\ Collect(w, env)
  /\ challenge' = [challenge EXCEPT ![w] = NoPage]
  /\ cattempts' = [cattempts EXCEPT ![w] = 0]
  /\ kind' = [kind EXCEPT ![w] = "none"]
  /\ answer' = [answer EXCEPT ![w] = "none"]
  /\ unresolved' = [unresolved EXCEPT ![w] = FALSE]
  /\ cfaulted' = [cfaulted EXCEPT ![w] = FALSE]
  /\ actions' = [actions EXCEPT ![w] = <<>>]
  /\ count' = [count EXCEPT ![w] = 0]
  /\ polled' = [polled EXCEPT ![w] = "none"]
  /\ UNCHANGED <<transportVars, timeoutVars, matchVars, capsolaVars, countVars,
                 cpc, tick, final, poolVars, queryVars,
                 batchVars, wi, sessionVars, sinkVars, stalls, faulted>>

\* ------------------------------------------------------ the marker batch
\* variant of DictSet that forgets the entries of the other keys
DictSetAlone(d, k, v) == <<[url |-> k, has |-> v]>>

\* results[url] = v on a dict kept as a sequence of pairs in insertion order
RECURSIVE DictSet(_, _, _)
DictSet(d, k, v) ==
  IF d = <<>> THEN <<[url |-> k, has |-> v]>>
  ELSE IF Head(d).url = k THEN <<[url |-> k, has |-> v]>> \o Tail(d)
  ELSE <<Head(d)>> \o DictSet(Tail(d), k, v)

\* variant of ValidLinks that returns every checked link, whatever its result
ValidLinksUnfiltered(d) == [i \in 1..Len(d) |-> d[i].url]

\* variant of ValidLinks that returns the first valid link only
ValidLinksFirstOnly(d) ==
  LET valid == SelectSeq(d, LAMBDA e : e.has) IN
  IF valid = <<>> THEN <<>> ELSE <<valid[1].url>>

\* for url, has_metrika in metrika_results.items(): if has_metrika: append
RECURSIVE ValidLinks(_)
ValidLinks(d) ==
  IF d = <<>> THEN <<>>
  ELSE IF Head(d).has THEN <<Head(d).url>> \o ValidLinks(Tail(d))
  ELSE ValidLinks(Tail(d))

\* variant of ChromeDriverOk whose session is not counted
ChromeDriverOkUncounted(w, open) ==
  /\ chrome' = [chrome EXCEPT ![w] = GetDriver(w, ChromeReuse, chromeInstance)]
  /\ openSessions' = open \cup {GetDriver(w, ChromeReuse, chromeInstance)}
  /\ chromeInstance' = StoreInstance(ChromeReuse, chromeInstance,
                                     GetDriver(w, ChromeReuse, chromeInstance))
  /\ UNCHANGED created

\* WebDriverManager.get_chrome_driver(headless=True, timeout=...) succeeds
ChromeDriverOk(w, open) ==
  /\ chrome' = [chrome EXCEPT ![w] = GetDriver(w, ChromeReuse, chromeInstance)]
  /\ openSessions' = open \cup {GetDriver(w, ChromeReuse, chromeInstance)}
  /\ chromeInstance' = StoreInstance(ChromeReuse, chromeInstance,
                                     GetDriver(w, ChromeReuse, chromeInstance))
  /\ created' = [created EXCEPT ![w] = @ + 1]

\* variant of BatchEnter that goes on with the batch, without a session, when
\* get_chrome_driver raised
BatchEnterWithoutSession(w, env) ==
  /\ pc[w] = "batch_enter"
  /\ \/ /\ ChromeDriverOk(w, openSessions)
        /\ pc' = [pc EXCEPT ![w] = "batch"]
        /\ Spend(env, 0)
        /\ UNCHANGED <<candidates, returnVars>>
     \/ /\ pc' = [pc EXCEPT ![w] = "batch"]
        /\ Spend(env, 1)
        /\ UNCHANGED <<candidates, returnVars, chromeVars, created,
                       openSessions>>
  /\ bi' = [bi EXCEPT ![w] = 0]
  /\ results' = [results EXCEPT ![w] = <<>>]
  /\ navigated' = [navigated EXCEPT ![w] = <<>>]
  /\ UNCHANGED <<transportVars, timeoutVars, matchVars, capsolaVars, countVars,
                 solverVars, poolVars,
                 queryVars, sattempt, inspected, wi, firefoxVars,
                 sinkVars, stalls, faulted>>

\* with BatchYandexMetrikaChecker(timeout=8) as batch_checker: __enter__
BatchEnter(w, env) ==
  /\ pc[w] = "batch_enter"
  /\ \/ /\ ChromeDriverOk(w, openSessions)
        /\ pc' = [pc EXCEPT ![w] = "batch"]
        /\ Spend(env, 0)
        /\ UNCHANGED <<candidates, returnVars>>
     \/ \* get_chrome_driver raised: valid_links stays [], processed is True
        /\ Return(w, <<>>, TRUE, "processed", env, 1)
        /\ candidates' = [candidates EXCEPT ![w] = <<>>]
        /\ UNCHANGED <<chromeVars, created, openSessions>>
  /\ bi' = [bi EXCEPT ![w] = 0]
  /\ results' = [results EXCEPT ![w] = <<>>]
  /\ navigated' = [navigated EXCEPT ![w] = <<>>]
  /\ UNCHANGED <<transportVars, timeoutVars, matchVars, capsolaVars, countVars,
                 solverVars, poolVars,
                 queryVars, sattempt, inspected, wi, firefoxVars,
                 sinkVars, stalls, faulted>>

\* except WebDriverException in _check_via_shared_webdriver: quit the driver
\* and create a new one; any exception of the two is passed over (d
\* exceptions of the environment were raised on the way)
BatchRecreate(w, env, d) ==
  \E q \in QuitOutcomes(chrome[w], env) :
    IF q.raised
    THEN /\ openSessions' = q.open
         /\ Spend(env, d + 1)
         /\ UNCHANGED <<chromeVars, created>>
    ELSE \/ /\ ChromeDriverOk(w, q.open)
            /\ Spend(env, d)
         \/ /\ openSessions' = q.open
            /\ Spend(env, d + 1)
            /\ UNCHANGED <<chromeVars, created>>

\* one iteration of "for url in urls" in check_sites_batch
BatchCheck(w, env) ==
  /\ pc[w] = "batch"
  /\ bi[w] < Len(candidates[w])
  /\ bi' = [bi EXCEPT ![w] = @ + 1]
  /\ LET url == candidates[w][bi[w] + 1]
         set(v) == results' = [results EXCEPT ![w] = DictSet(@, url, v)]
         get == navigated' = [navigated EXCEPT ![w] = Append(@, url)]
     IN
     IF QuickCheckViaRequests(url)
     THEN \* _quick_check_via_requests found the signature
          /\ set(TRUE)
          /\ Spend(env, 0)
          /\ UNCHANGED <<chromeVars, created, openSessions, navigated>>
     ELSE IF chrome[w] = None
     THEN /\ set(FALSE)
          /\ Spend(env, 0)
          /\ UNCHANGED <<chromeVars, created, openSessions, navigated>>
     ELSE IF chrome[w] \in openSessions
     THEN \/ \* the page loads: source signatures, then the script probes
             /\ set(RenderedMetrika(url))
             /\ get
             /\ Spend(env, 0)
             /\ UNCHANGED <<chromeVars, created, openSessions>>
          \/ \* TimeoutException or another exception
             /\ set(FALSE)
             /\ get
             /\ Spend(env, 1)
             /\ UNCHANGED <<chromeVars, created, openSessions>>
          \/ \* WebDriverException
             /\ set(FALSE)
             /\ get
             /\ BatchRecreate(w, env, 1)
     ELSE \* the session is gone: driver.get raises a WebDriverException or
          \* another exception
          \/ /\ set(FALSE)
             /\ get
             /\ BatchRecreate(w, env, 0)
          \/ /\ set(FALSE)
             /\ get
             /\ Spend(env, 0)
             /\ UNCHANGED <<chromeVars, created, openSessions>>
  /\ UNCHANGED <<transportVars, timeoutVars, matchVars, capsolaVars, countVars,
                 solverVars, poolVars,
                 pc, queryVars, collectVars, returnVars, wi,
                 firefoxVars, sinkVars, stalls, faulted>>

\* the batch is done: valid_links are collected, __exit__ quits the driver,
\* and get_yandex_links breaks out of its loop with processed_successfully
BatchExit(w, env) ==
  /\ pc[w] = "batch"
  /\ bi[w] = Len(candidates[w])
  /\ \E q \in QuitOutcomes(chrome[w], env) :
       /\ openSessions' = Dropped(q.open, chrome[w])
       /\ Return(w, ValidLinks(results[w]), TRUE, "processed", env,
                 Cost(q.raised))
  /\ chrome' = [chrome EXCEPT ![w] = None]
  /\ candidates' = [candidates EXCEPT ![w] = <<>>]
  /\ bi' = [bi EXCEPT ![w] = 0]
  /\ results' = [results EXCEPT ![w] = <<>>]
  /\ navigated' = [navigated EXCEPT ![w] = <<>>]
  /\ created' = [created EXCEPT ![w] = 0]
  /\ UNCHANGED <<transportVars, timeoutVars, matchVars, capsolaVars, countVars,
                 solverVars, poolVars,
                 queryVars, sattempt, inspected, wi, firefoxVars,
                 chromeInstance, sinkVars, stalls, faulted>>

\* ------------------------------------------------- the worker, continued
\* a line of the result file: the link, tagged with the worker and the query
\* that wrote it
Line(w, url) == [worker |-> w, query |-> CurrentQuery(w), link |-> url]

\* variant of AfterStall that writes what the stalled attempt returned
AfterStallKeepLinks(flag, lnks) ==
  IF flag /\ lnks # <<>> THEN "lock" ELSE "stall_quit"

\* variant of AfterStall that goes on to the next attempt without a restart
AfterStallNoRestart(flag, lnks) == "attempt"

\* where a stalled attempt continues: the restart of the session
AfterStall(flag, lnks) == "stall_quit"

\* variant of WorkerReturned that leaves the session alone when the stalled
\* attempt was the last one of the query
WorkerReturnedLastStallKeeps(w) ==
  /\ pc[w] = "returned"
  /\ IF Stalled(elapsed[w])
     THEN /\ stalls' = [stalls EXCEPT ![w] = @ + 1]
          /\ pc' = [pc EXCEPT ![w] =
                      IF RangeHasNext(attempt[w])
                      THEN AfterStall(processed[w], links[w]) ELSE "loop"]
     ELSE /\ pc' = [pc EXCEPT ![w] =
                      IF processed[w]
                      THEN IF links[w] # <<>> THEN "lock" ELSE "loop"
                      ELSE "attempt"]
          /\ UNCHANGED stalls
  /\ UNCHANGED <<transportVars, timeoutVars, matchVars, capsolaVars, countVars,
                 solverVars, poolVars,
                 queryVars, collectVars, batchVars, returnVars, wi,
                 sessionVars, sinkVars, faulted, disturbed>>

\* the worker's decisions after get_top_links returned
WorkerReturned(w) ==
  /\ pc[w] = "returned"
  /\ IF Stalled(elapsed[w])
     THEN /\ stalls' = [stalls EXCEPT ![w] = @ + 1]
          /\ pc' = [pc EXCEPT ![w] = AfterStall(processed[w], links[w])]
     ELSE /\ pc' = [pc EXCEPT ![w] =
                      IF processed[w]
                      THEN IF links[w] # <<>> THEN "lock" ELSE "loop"
                      ELSE "attempt"]
          /\ UNCHANGED stalls
  /\ UNCHANGED <<transportVars, timeoutVars, matchVars, capsolaVars, countVars,
                 solverVars, poolVars,
                 queryVars, collectVars, batchVars, returnVars, wi,
                 sessionVars, sinkVars, faulted, disturbed>>

\* if driver: driver.quit()
WorkerStallQuit(w, env) ==
  /\ pc[w] = "stall_quit"
  /\ \E q \in QuitOutcomes(driver[w], env) :
       /\ openSessions' = q.open
       /\ pc' = [pc EXCEPT ![w] = IF q.raised THEN "finally" ELSE "stall_init"]
       /\ faulted' = [faulted EXCEPT ![w] = q.raised]
       /\ Spend(env, Cost(q.raised))
  /\ UNCHANGED <<transportVars, timeoutVars, matchVars, capsolaVars, countVars,
                 solverVars, poolVars,
                 queryVars, collectVars, batchVars, returnVars, wi,
                 firefoxVars, chromeVars, sinkVars, stalls>>

\* driver = WebDriverManager.init_driver(); continue
WorkerStallInit(w, env) ==
  /\ pc[w] = "stall_init"
  /\ \/ /\ InitDriverOk(w)
        /\ pc' = [pc EXCEPT ![w] = "attempt"]
        /\ Spend(env, 0)
        /\ UNCHANGED faulted
     \/ InitDriverRaises(w, env)
  /\ UNCHANGED <<transportVars, timeoutVars, matchVars, capsolaVars, countVars,
                 solverVars, poolVars,
                 queryVars, collectVars, batchVars, returnVars, wi,
                 chromeVars, sinkVars, stalls>>

\* variant of LockFree in which acquiring never blocks
LockFreeAlways(l) == TRUE

\* threading.Lock: acquire succeeds when nobody holds the lock
LockFree(l) == l = None

\* with self.lock:
WorkerLock(w) ==
  /\ pc[w] = "lock"
  /\ LockFree(lock)
  /\ lock' = w
  /\ pc' = [pc EXCEPT ![w] = "open"]
  /\ wi' = [wi EXCEPT ![w] = 0]
  /\ UNCHANGED <<transportVars, timeoutVars, matchVars, capsolaVars, countVars,
                 solverVars, poolVars,
                 queryVars, collectVars, batchVars, returnVars,
                 sessionVars, sink, written, ghostVars>>

\* variant of OpenAppend that opens with mode 'w'
OpenTruncate(content) == <<>>

\* open(path, 'a'): the content of the file is kept
OpenAppend(content) == content

\* variant of WriteFault in which the lock stays with the failed worker
WriteFaultKeepsLock(w, env) ==
  /\ UNCHANGED lock
  /\ pc' = [pc EXCEPT ![w] = "finally"]
  /\ faulted' = [faulted EXCEPT ![w] = TRUE]
  /\ Spend(env, 1)

\* an exception leaves both with-blocks (the file is closed, the lock is
\* released) and reaches the worker's except clause
WriteFault(w, env) ==
  /\ lock' = None
  /\ pc' = [pc EXCEPT ![w] = "finally"]
  /\ faulted' = [faulted EXCEPT ![w] = TRUE]
  /\ Spend(env, 1)

\* with open(paths.PARSED_LINKS_TOP_FILE, 'a', encoding='utf-8') as res_file:
WorkerOpen(w, env) ==
  /\ pc[w] = "open"
  /\ \/ /\ sink' = OpenAppend(sink)
        /\ pc' = [pc EXCEPT ![w] = "write"]
        /\ Spend(env, 0)
        /\ UNCHANGED <<lock, faulted>>
     \/ /\ WriteFault(w, env)
        /\ UNCHANGED sink
  /\ UNCHANGED <<transportVars, timeoutVars, matchVars, capsolaVars, countVars,
                 solverVars, poolVars,
                 queryVars, collectVars, batchVars, returnVars, wi,
                 sessionVars, written, stalls>>

\* for link in links: res_file.write(link + '\n')
WorkerWrite(w, env) ==
  /\ pc[w] = "write"
  /\ wi[w] < Len(links[w])
  /\ \/ /\ sink' = Append(sink, Line(w, links[w][wi[w] + 1]))
        /\ written' = [written EXCEPT ![w] =
                         Append(@, Line(w, links[w][wi[w] + 1]))]
        /\ wi' = [wi EXCEPT ![w] = @ + 1]
        /\ Spend(env, 0)
        /\ UNCHANGED <<pc, lock, faulted>>
     \/ /\ WriteFault(w, env)
        /\ UNCHANGED <<sink, written, wi>>
  /\ UNCHANGED <<transportVars, timeoutVars, matchVars, capsolaVars, countVars,
                 solverVars, poolVars,
                 queryVars, collectVars, batchVars, returnVars,
                 sessionVars, stalls>>

\* variant of WorkerClose without the break: the attempt loop goes on
WorkerCloseNoBreak(w, env) ==
  /\ pc[w] = "write"
  /\ wi[w] = Len(links[w])
  /\ \/ /\ lock' = None
        /\ pc' = [pc EXCEPT ![w] = "attempt"]
        /\ Spend(env, 0)
        /\ UNCHANGED faulted
     \/ WriteFault(w, env)
  /\ UNCHANGED <<transportVars, timeoutVars, matchVars, capsolaVars, countVars,
                 solverVars, poolVars,
                 queryVars, collectVars, batchVars, returnVars, wi,
                 sessionVars, sink, written, stalls>>

\* the end of both with-blocks: the file is closed, the lock released; break
WorkerClose(w, env) ==
  /\ pc[w] = "write"
  /\ wi[w] = Len(links[w])
  /\ \/ /\ lock' = None
        /\ pc' = [pc EXCEPT ![w] = "loop"]
        /\ Spend(env, 0)
        /\ UNCHANGED faulted
     \/ WriteFault(w, env)
  /\ UNCHANGED <<transportVars, timeoutVars, matchVars, capsolaVars, countVars,
                 solverVars, poolVars,
                 queryVars, collectVars, batchVars, returnVars, wi,
                 sessionVars, sink, written, stalls>>

\* variant of WorkerFinally that leaves the session as it is
WorkerFinallyNoQuit(w, env) ==
  /\ pc[w] = "finally"
  /\ Spend(env, 0)
  /\ pc' = [pc EXCEPT ![w] = "done"]
  /\ UNCHANGED <<transportVars, timeoutVars, matchVars, capsolaVars, countVars,
                 solverVars, poolVars,
                 queryVars, collectVars, batchVars, returnVars, wi,
                 sessionVars, sinkVars, stalls, faulted>>

\* except Exception: log; finally: if driver: driver.quit() (errors logged)
WorkerFinally(w, env) ==
  /\ pc[w] = "finally"
  /\ IF driver[w] # None
     THEN \E q \in QuitOutcomes(driver[w], env) :
            /\ openSessions' = q.open
            /\ Spend(env, Cost(q.raised))
     ELSE /\ Spend(env, 0)
          /\ UNCHANGED openSessions
  /\ pc' = [pc EXCEPT ![w] = "done"]
  /\ UNCHANGED <<transportVars, timeoutVars, matchVars, capsolaVars, countVars,
                 solverVars, poolVars,
                 queryVars, collectVars, batchVars, returnVars, wi,
                 firefoxVars, chromeVars, sinkVars, stalls, faulted>>

\* ------------------------------------------------------ the pool fixture
\* a result page with a secure link that carries the marker in its body and
\* an insecure one whose secure variant shows it only once rendered
FixturePages == {<<Url("https", "static"), Url("http", "js")>>}

\* the pool runs against a search endpoint that answers every search with the
\* fixture page; the environment produces PoolDisturbances stalls or exceptions per run
PoolEnv ==
  [pages |-> FixturePages,
   times |-> {MAX_TIMEOUT_PER_REQUEST, MAX_TIMEOUT_PER_REQUEST + 1},
   searchFaults |-> FALSE, budget |-> PoolDisturbances, challenges |-> {}]

\* a single worker runs against every page, fault and measured time (below,
\* at and above the stall bound)
WorkerEnv ==
  [pages |-> Pages,
   times |-> {MAX_TIMEOUT_PER_REQUEST - 1, MAX_TIMEOUT_PER_REQUEST,
              MAX_TIMEOUT_PER_REQUEST + 1},
   searchFaults |-> TRUE, budget |-> 0, challenges |-> {}]

\* LinkCollector constructed and the backlog loaded
Init == InitWith(MaxQueries, MaxThreads)

Next ==
  \/ CreateThreads
  \/ StartThread
  \/ JoinThreads
  \/ \E w \in Workers : WorkerInitDriver(w, PoolEnv)
  \/ \E w \in Workers : WorkerNextQuery(w)
  \/ \E w \in Workers : WorkerAttempt(w, PoolEnv)
  \/ \E w \in Workers : CollectorSearch(w, PoolEnv)
  \/ \E w \in Workers : BatchEnter(w, PoolEnv)
  \/ \E w \in Workers : BatchCheck(w, PoolEnv)
  \/ \E w \in Workers : BatchExit(w, PoolEnv)
  \/ \E w \in Workers : WorkerReturned(w)
  \/ \E w \in Workers : WorkerStallQuit(w, PoolEnv)
  \/ \E w \in Workers : WorkerStallInit(w, PoolEnv)
  \/ \E w \in Workers : WorkerLock(w)
  \/ \E w \in Workers : WorkerOpen(w, PoolEnv)
  \/ \E w \in Workers : WorkerWrite(w, PoolEnv)
  \/ \E w \in Workers : WorkerClose(w, PoolEnv)
  \/ \E w \in Workers : WorkerFinally(w, PoolEnv)

Spec == Init /\ [][Next]_vars

\* ------------------------------------------- single-worker specification
InitWorker == InitWith(WorkerMaxQueries, 1)

NextWorker ==
  \/ CreateThreads
  \/ StartThread
  \/ JoinThreads
  \/ \E w \in Workers : WorkerInitDriver(w, WorkerEnv)
  \/ \E w \in Workers : WorkerNextQuery(w)
  \/ \E w \in Workers : WorkerAttempt(w, WorkerEnv)
  \/ \E w \in Workers : CollectorSearch(w, WorkerEnv)
  \/ \E w \in Workers : BatchEnter(w, WorkerEnv)
  \/ \E w \in Workers : BatchCheck(w, WorkerEnv)
  \/ \E w \in Workers : BatchExit(w, WorkerEnv)
  \/ \E w \in Workers : WorkerReturned(w)
  \/ \E w \in Workers : WorkerStallQuit(w, WorkerEnv)
  \/ \E w \in Workers : WorkerStallInit(w, WorkerEnv)
  \/ \E w \in Workers : WorkerLock(w)
  \/ \E w \in Workers : WorkerOpen(w, WorkerEnv)
  \/ \E w \in Workers : WorkerWrite(w, WorkerEnv)
  \/ \E w \in Workers : WorkerClose(w, WorkerEnv)
  \/ \E w \in Workers : WorkerFinally(w, WorkerEnv)

SpecWorker == InitWorker /\ [][NextWorker]_vars

\* ----------------------------------------------- solver specification
\* a single worker whose searches can meet the verification button; the
\* site and the solving service answer in every way
SolverEnv ==
  [pages |-> {<<>>} \cup FixturePages,
   times |-> {MAX_TIMEOUT_PER_REQUEST, MAX_TIMEOUT_PER_REQUEST + 1},
   searchFaults |-> FALSE, budget |-> 0, challenges |-> ChallengePages]

InitSolver == InitWith(SolverMaxQueries, 1)

NextSolver ==
  \/ CreateThreads
  \/ StartThread
  \/ JoinThreads
  \/ \E w \in Workers : WorkerInitDriver(w, SolverEnv)
  \/ \E w \in Workers : WorkerNextQuery(w)
  \/ \E w \in Workers : WorkerAttempt(w, SolverEnv)
  \/ \E w \in Workers : CollectorSearch(w, SolverEnv)
  \/ \E w \in Workers : ClickVerificationButton(w, SolverEnv)
  \/ \E w \in Workers : WaitForm(w, SolverEnv)
  \/ \E w \in Workers : LoopTest(w, SolverEnv)
  \/ \E w \in Workers : Classify(w, SolverEnv)
  \/ \E w \in Workers : SolveRound(w, SolverEnv)
  \/ \E w \in Workers : GetResult(w, SolverEnv)
  \/ \E w \in Workers : Act(w, SolverEnv)
  \/ \E w \in Workers : Check(w, SolverEnv)
  \/ \E w \in Workers : AfterLoop(w, SolverEnv)
  \/ \E w \in Workers : CollectorCollect(w, SolverEnv)
  \/ \E w \in Workers : BatchEnter(w, SolverEnv)
  \/ \E w \in Workers : BatchCheck(w, SolverEnv)
  \/ \E w \in Workers : BatchExit(w, SolverEnv)
  \/ \E w \in Workers : WorkerReturned(w)
  \/ \E w \in Workers : WorkerStallQuit(w, SolverEnv)
  \/ \E w \in Workers : WorkerStallInit(w, SolverEnv)
  \/ \E w \in Workers : WorkerLock(w)
  \/ \E w \in Workers : WorkerOpen(w, SolverEnv)
  \/ \E w \in Workers : WorkerWrite(w, SolverEnv)
  \/ \E w \in Workers : WorkerClose(w, SolverEnv)
  \/ \E w \in Workers : WorkerFinally(w, SolverEnv)

\* the worker thread keeps running: a step that is possible is taken
SpecSolver == InitSolver /\ [][NextSolver]_vars /\ WF_vars(NextSolver)

\* ----------------------------------------------- transport specification
\* _collect_and_filter_by_https applied to a list of result items, and again
\* to the links it returned
TransportInput ==
  IF phaseOut = <<>> THEN phaseIn ELSE phaseOut[Len(phaseOut)].links

TransportPass ==
  /\ Len(phaseOut) < TransportPasses
  /\ phaseOut' = Append(phaseOut,
                        CollectAndFilterByHttps(TransportInput,
                                                MaxLinksPerQuery))
  /\ UNCHANGED <<phaseIn, poolVars, workerVars, sessionVars, sinkVars,
                 ghostVars, solverVars, timeoutVars, matchVars, capsolaVars,
                 countVars>>

InitTransport ==
  /\ InitProgram(0, 1)
  /\ phaseIn \in UNION {[1..n -> Items] : n \in 0..MaxCandidates}
  /\ phaseOut = <<>>
  /\ matchIn = NoMatchInput
  /\ matchOut = <<>>
  /\ capIn = NoCall
  /\ capOut = <<>>

NextTransport == TransportPass

SpecTransport == InitTransport /\ [][NextTransport]_vars

\* ---------------------------------------------- extraction specification
\* host names and domains, written letter by letter
Letters == {"a", "b"}
Names == UNION {[1..n -> Letters] : n \in 1..MaxNameLen}

\* a result item of the service pipeline: whether its anchor is found and
\* has an href, and the netloc of the href
ServiceItems == [href : {TRUE}, netloc : Names] \cup
                {[href |-> FALSE, netloc |-> <<>>]}

\* domain in urlparse(href).netloc: the domain is a substring of the netloc
Contains(domain, netloc) ==
  \E k \in 0..(Len(netloc) - Len(domain)) :
    \A i \in 1..Len(domain) : netloc[k + i] = domain[i]

\* variant of FindMatchingStep that takes every link
FindMatchingStepUnfiltered(found, item, domain, max_links) ==
  IF Len(found) >= max_links THEN found
  ELSE IF item.href THEN Append(found, item.netloc)
  ELSE found

\* one iteration of "for item in search_items" in _find_matching_links
FindMatchingStep(found, item, domain, max_links) ==
  IF Len(found) >= max_links THEN found
  ELSE IF item.href /\ Contains(domain, item.netloc)
  THEN Append(found, item.netloc)
  ELSE found

RECURSIVE FindMatchingFrom(_, _, _, _, _)
FindMatchingFrom(items, i, found, domain, max_links) ==
  IF i > Len(items) THEN found
  ELSE FindMatchingFrom(items, i + 1,
                        FindMatchingStep(found, items[i], domain, max_links),
                        domain, max_links)

\* _find_matching_links(domain, max_links)
FindMatchingLinks(items, domain, max_links) ==
  FindMatchingFrom(items, 1, <<>>, domain, max_links)

\* links = self._find_matching_links(domain, max_links)
FindMatching ==
  /\ matchIn # NoMatchInput
  /\ Len(matchOut) = 0
  /\ matchOut' = <<FindMatchingLinks(matchIn.items, matchIn.domain,
                                     MaxLinksPerQuery)>>
  /\ UNCHANGED <<matchIn, capsolaVars, transportVars, timeoutVars, countVars,
                 poolVars,
                 workerVars, sessionVars, sinkVars, ghostVars, solverVars>>

\* either pipeline is given a result list: the top pipeline a list of items,
\* the service pipeline a list of items and a domain
InitExtract ==
  /\ InitProgram(0, 1)
  /\ phaseOut = <<>>
  /\ matchOut = <<>>
  /\ capIn = NoCall
  /\ capOut = <<>>
  /\ \/ /\ phaseIn \in UNION {[1..n -> Items] : n \in 0..MaxCandidates}
        /\ matchIn = NoMatchInput
     \/ /\ phaseIn = <<>>
        /\ matchIn \in
             [items : UNION {[1..n -> ServiceItems] : n \in 1..MaxCandidates},
              domain : Names]

NextExtract == TransportPass \/ FindMatching

SpecExtract == InitExtract /\ [][NextExtract]_vars

\* ---------------------------------------------- the solving service client
\* captcha_type as the solver passes it, and two values it never passes
CaptchaTypes == {"smart", "text", "puzzle", "image", "unknown"}

\* requests.get(img_url) and raise_for_status
FetchAnswers == {"ok", "http_error", "raised"}

\* the answer to the post to /create: status 1 with a task id, status 1 with
\* an empty id, another status, an HTTP error, no answer
CreateAnswers == {"created", "empty_id", "refused", "http_error", "raised"}

\* the last answer to the post to /result: status 1, status 0 with an error,
\* no answer
ResultAnswers == {"ready", "error", "raised"}

\* a CapsolaResponse, with the requests sent on the way
Response(success, requests) ==
  [success |-> success, raised |-> FALSE, requests |-> requests]

\* an exception leaves the function, after the requests sent on the way
Raised(requests) ==
  [success |-> FALSE, raised |-> TRUE, requests |-> requests]

\* if not task_id is false: _create_task returned a non-empty id
CreateTask(create) == create = "created"

\* the polls of _get_result: one per CAPCHA_NOT_READY, and the last one
GetResultPolls(pending) == [i \in 1..(pending + 1) |-> "result"]

\* _get_result returned the result dict, not None
GetResultReturns(result) == result = "ready"

\* variant of CreateAndPoll that polls whatever _create_task returned
CreateAndPollAlways(in, before) ==
  Response(CreateTask(in.create) /\ GetResultReturns(in.result),
           before \o <<"create">> \o GetResultPolls(in.pending))

\* task_id = self._create_task(data); if not task_id: return failure;
\* result = self._get_result(task_id)
CreateAndPoll(in, before) ==
  IF ~CreateTask(in.create)
  THEN Response(FALSE, before \o <<"create">>)
  ELSE Response(GetResultReturns(in.result),
                before \o <<"create">> \o GetResultPolls(in.pending))

\* solve_smart_captcha and solve_text_captcha: the image is fetched first; an
\* exception is caught by the method's except clause
SolveImageBased(in) ==
  IF in.fetch # "ok" THEN Response(FALSE, <<"get_image">>)
  ELSE CreateAndPoll(in, <<"get_image">>)

\* solve_puzzle_captcha
SolvePuzzleCaptcha(in) == CreateAndPoll(in, <<>>)

\* api = CapsolaAPI() and the if / elif chain of solve_captcha
CaptchaDispatch(in) ==
  IF ~in.key THEN Raised(<<>>)
  ELSE CASE in.type \in {"smart", "text"} -> SolveImageBased(in)
         [] in.type = "puzzle" -> SolvePuzzleCaptcha(in)
         [] OTHER -> Response(FALSE, <<>>)

\* variant of SolveCaptcha without its try / except
SolveCaptchaUncaught(in) == CaptchaDispatch(in)

\* solve_captcha: except Exception: return CapsolaResponse(success=False)
SolveCaptcha(in) ==
  IF CaptchaDispatch(in).raised
  THEN Response(FALSE, CaptchaDispatch(in).requests)
  ELSE CaptchaDispatch(in)

\* result = solve_captcha(captcha_type, ...)
SolveCaptchaCall ==
  /\ capIn # NoCall
  /\ Len(capOut) = 0
  /\ capOut' = <<SolveCaptcha(capIn)>>
  /\ UNCHANGED <<capIn, matchVars, transportVars, timeoutVars, countVars,
                 poolVars, workerVars, sessionVars, sinkVars, ghostVars,
                 solverVars>>

\* solve_captcha is called with any type, with or without an API key, against
\* any answers of the image host and of the service
InitCapsola ==
  /\ InitProgram(0, 1)
  /\ phaseIn = <<>>
  /\ phaseOut = <<>>
  /\ matchIn = NoMatchInput
  /\ matchOut = <<>>
  /\ capOut = <<>>
  /\ capIn \in [type : CaptchaTypes, key : BOOLEAN, fetch : FetchAnswers,
                create : CreateAnswers, result : ResultAnswers,
                pending : 0..MaxPending]

NextCapsola == SolveCaptchaCall

SpecCapsola == InitCapsola /\ [][NextCapsola]_vars

\* ----------------------------------------------- partition specification
InitPartition == InitWith(PartMaxQueries, PartMaxThreads)

NextPartition == CreateThreads

SpecPartition == InitPartition /\ [][NextPartition]_vars

\* =============================================================== claims
\* positions <<k, j>> of the slices: element j of the slice of thread k
SlicePositions ==
  UNION {{<<k, j>> : j \in 1..Len(slices[k])} : k \in 1..num_threads}

Partitioned == runPc # "create" /\ num_threads <= Len(queries)

\* C1: for 1 <= N <= L, _create_threads gives every query of the backlog to
\* exactly one slice, at exactly one position: no query is dropped and none
\* is handed to two workers.
C1_PartitionCompleteDisjoint ==
  Partitioned =>
    \A q \in 1..Len(queries) :
      Cardinality({p \in SlicePositions : slices[p[1]][p[2]] = queries[q]}) = 1

C1_Witness ==
  /\ Partitioned
  /\ num_threads = 3
  /\ Len(queries) = 5

\* C2 as claimed: for 1 <= N <= L, the sizes of any two slices differ by at
\* most one element.
C2_SlicesDifferByAtMostOne ==
  Partitioned =>
    \A k1, k2 \in 1..num_threads : Len(slices[k1]) - Len(slices[k2]) <= 1

\* C2 amended: for 1 <= N <= L, every slice but the last has floor(L/N)
\* elements and the last has floor(L/N) + (L mod N), so that the sizes of two
\* slices differ by at most N - 1 elements.
C2_RemainderInLastSlice ==
  Partitioned =>
    /\ \A k \in 1..num_threads :
         Len(slices[k]) =
           IF k = num_threads
           THEN (Len(queries) \div num_threads) + (Len(queries) % num_threads)
           ELSE Len(queries) \div num_threads
    /\ \A k1, k2 \in 1..num_threads :
         Len(slices[k1]) - Len(slices[k2]) <= num_threads - 1

C2_Witness ==
  /\ Partitioned
  /\ num_threads = 4
  /\ Len(queries) = 7
  /\ Len(slices[4]) = 4

\* C3: the lines a worker appends for one query are contiguous in the result
\* file under every interleaving, and a worker opens and writes the file only
\* while it holds the collector's lock.
C3_BlocksContiguous ==
  /\ \A i, k \in 1..Len(sink) :
       (i < k /\ sink[i].worker = sink[k].worker
              /\ sink[i].query = sink[k].query)
       => \A j \in i..k : /\ sink[j].worker = sink[i].worker
                          /\ sink[j].query = sink[i].query
  /\ \A w \in Workers : pc[w] \in {"open", "write"} => lock = w

\* a worker is in the middle of its block while another waits for the lock
C3_Witness ==
  \E w1, w2 \in Workers :
    /\ w1 # w2
    /\ pc[w1] = "write" /\ wi[w1] = 1 /\ Len(links[w1]) = 2
    /\ pc[w2] = "lock"

\* the lines of worker w in the result file, in file order
LinesOf(w) ==
  LET Mine(l) == l.worker = w IN SelectSeq(sink, Mine)

RECURSIVE TotalWritten(_)
TotalWritten(n) == IF n = 0 THEN 0 ELSE Len(written[n]) + TotalWritten(n - 1)

\* C4: no appended line is lost or duplicated: the lines of each worker in the
\* result file are exactly the lines whose write returned, so that the file
\* holds as many lines as all workers wrote (W * M for W workers writing M
\* lines each).
C4_NoLineLostOrDuplicated ==
  /\ \A w \in Workers : LinesOf(w) = written[w]
  /\ Len(sink) = TotalWritten(num_threads)

\* two workers have finished after writing two lines each
C4_Witness ==
  /\ runPc = "returned"
  /\ num_threads = 2
  /\ \A w \in Workers : Len(written[w]) = 2
  /\ Len(sink) = 4

\* the sessions worker w refers to
Held(w) == {driver[w], chrome[w]} \ {None}

\* the open sessions that thread w constructed
OpenOf(w) == openSessions \cap SessionIds(w)

\* C5 as claimed: every worker holds at most one open browser session, the
\* search session and the session of the marker batch both counted, and no
\* session is used by two workers.
C5_AtMostOneOpenSession ==
  \A w \in Workers :
    /\ Cardinality(Held(w) \cap openSessions) <= 1
    /\ \A v \in Workers \ {w} : Held(w) \cap Held(v) = {}

\* C5 amended: every worker holds at most one open search session and at most
\* one open session of the marker batch, the latter only while it runs a
\* batch (so two open sessions at once during a batch); every other session
\* the worker constructed is closed or abandoned, and no session is used by
\* two workers.
C5_OneSearchOneBatchSession ==
  \A w \in Workers :
    /\ OpenOf(w) \subseteq Held(w)
    /\ Cardinality(OpenOf(w)) <= 2
    /\ chrome[w] # None => pc[w] = "batch"
    /\ Held(w) \subseteq SessionIds(w)
    /\ \A v \in Workers \ {w} : Held(w) \cap Held(v) = {}

\* two workers run their marker batches at once, each with two open sessions
C5_Witness ==
  \E w1, w2 \in Workers :
    /\ w1 # w2
    /\ pc[w1] = "batch" /\ pc[w2] = "batch"
    /\ Cardinality(Held(w1) \cap openSessions) = 2
    /\ Cardinality(Held(w2) \cap openSessions) = 2

\* C6: for every query the worker calls get_top_links at most
\* MAX_ATTEMPTS_PER_QUERY (3) times, stalled attempts included, and after the
\* third call it leaves the attempt loop for the next query.
C6_AtMostThreeCalls ==
  [][\A w \in Workers :
       /\ calls'[w] <= 3
       /\ (pc[w] = "attempt" /\ calls[w] = 3 /\ pc'[w] # pc[w])
          => pc'[w] = "loop"]_vars

\* three calls were made for a query, one of them stalled, and the worker
\* has gone on
C6_Witness ==
  \E w \in Workers :
    /\ calls[w] = 3
    /\ stalls[w] >= 1
    /\ pc[w] = "loop"
    /\ ~faulted[w]

\* C7: in the top pipeline the collector's search is retried only when the
\* attempt found no candidate to inspect; an attempt that inspected one ends
\* the retry loop even if no candidate passed the transport check.
C7_RetryOnlyWithoutCandidates ==
  \A w \in Workers :
    (pc[w] = "search" /\ sattempt[w] > 0) => inspected[w] = 0

C9_StalledAttemptNeverWritten ==
  [][\A w \in Workers :
       /\ (pc[w] = "returned" /\ elapsed[w] > 300 /\ pc'[w] # pc[w])
          => (pc'[w] = "stall_quit" /\ sink' = sink)
       /\ (pc[w] = "stall_quit" /\ pc'[w] # pc[w])
          => /\ pc'[w] \in {"stall_init", "finally"}
             /\ sink' = sink
             /\ pc'[w] = "stall_init" => driver[w] \notin openSessions'
       /\ (pc[w] = "stall_init" /\ pc'[w] # pc[w])
          => /\ pc'[w] \in {"attempt", "finally"}
             /\ sink' = sink
             /\ pc'[w] = "attempt" => /\ driver'[w] # driver[w]
                                      /\ driver'[w] \in openSessions'
       /\ (pc[w] \in {"lock", "open", "write"}) => elapsed[w] <= 300
       /\ (sink' # sink /\ pc[w] = "write") => elapsed[w] <= 300]_vars

\* a stalled attempt returned validated links; the session was replaced and
\* the next attempt is about to start with nothing written
C9_Witness ==
  \E w \in Workers :
    /\ pc[w] = "attempt"
    /\ elapsed[w] > 300
    /\ links[w] # <<>>
    /\ driver[w] \in openSessions
    /\ sink = <<>>

\* C10: a stalled attempt consumes one attempt of the query's budget and
\* causes one session creation: while no exception has reached the worker and
\* no restart is under way, init_driver was called 1 + (stalled attempts)
\* times, and the restart leaves the attempt count as it is.
C10_OneCreationPerStall ==
  [][\A w \in Workers :
       /\ (~faulted'[w] /\
           pc'[w] \notin {"idle", "init", "stall_quit", "stall_init"})
          => initCalls'[w] = 1 + stalls'[w]
       /\ (pc[w] \in {"stall_quit", "stall_init"} \/
           (pc[w] = "returned" /\ Stalled(elapsed[w])))
          => (attempt'[w] = attempt[w] /\ calls'[w] = calls[w])]_vars

\* a worker has finished without exception after two stalled attempts
C10_Witness ==
  \E w \in Workers :
    /\ pc[w] = "done"
    /\ ~faulted[w]
    /\ stalls[w] = 2
    /\ initCalls[w] = 3

\* C11: a fault raised inside a worker, the failure to create its session
\* included, ends that worker only: the step that raises it changes nothing
\* of another worker, the failed worker does not keep the lock, a worker
\* waiting for the lock waits for a worker that is writing, a worker that
\* ends without a fault of its own has gone through its whole slice, and the
\* result file only ever grows.
C11_FaultEndsOnlyItsWorker ==
  [][/\ \A w \in Workers :
          (faulted'[w] /\ ~faulted[w]) =>
            \A v \in Workers \ {w} :
              /\ pc'[v] = pc[v] /\ qi'[v] = qi[v] /\ attempt'[v] = attempt[v]
              /\ driver'[v] = driver[v] /\ written'[v] = written[v]
     /\ Len(sink') >= Len(sink) /\ SubSeq(sink', 1, Len(sink)) = sink
     /\ \A w \in Workers :
          /\ pc'[w] \in {"finally", "done"} => lock' # w
          /\ (pc'[w] = "lock" /\ lock' # None) =>
               pc'[lock'] \in {"open", "write"}
          /\ (pc'[w] = "done" /\ ~faulted'[w]) => qi'[w] = Len(slices'[w])]_vars

\* one worker failed in the middle of its block; the other has written its
\* block after it and finished its slice
C11_Witness ==
  \E w, v \in Workers :
    /\ w # v
    /\ faulted[w] /\ pc[w] = "done" /\ Len(written[w]) = 1
    /\ ~faulted[v] /\ pc[v] = "done"
    /\ Len(slices[v]) >= 1 /\ qi[v] = Len(slices[v])
    /\ Len(sink) = 3 /\ sink[1].worker = w /\ sink[3].worker = v

\* C12 as claimed: no exception of one query unwinds past the query loop, so
\* a worker that has begun a query ends only after the last query of its
\* slice.
C12_FaultedWorkerFinishesSlice ==
  \A w \in Workers :
    (pc[w] = "done" /\ qi[w] >= 1) => qi[w] = Len(slices[w])

\* C12 amended: an exception raised inside get_top_links (the search, the
\* marker batch) is caught there and never reaches the worker; an exception
\* raised by the worker's own steps of a query (the session quit or
\* re-creation of the stall handling, the write to the result file) leaves
\* the query loop: the worker goes to its finally clause and ends, and begins
\* no further query of its slice.
C12_WorkerFaultLeavesQueryLoop ==
  [][\A w \in Workers :
       /\ pc[w] \in {"attempt", "search", "batch_enter", "batch", "returned"}
          => (faulted'[w] = faulted[w] /\ pc'[w] # "finally")
       /\ (faulted'[w] /\ ~faulted[w])
          => /\ pc[w] \in {"init", "stall_quit", "stall_init", "open", "write"}
             /\ pc'[w] = "finally"
       /\ pc[w] \in {"finally", "done"}
          => (pc'[w] \in {"finally", "done"} /\ qi'[w] = qi[w])
       /\ faulted'[w] => pc'[w] \in {"finally", "done"}]_vars

\* the session could not be replaced after a stall of the first of two
\* queries: the worker has ended and the second query was never begun
C12_Witness ==
  \E w \in Workers :
    /\ faulted[w] /\ pc[w] = "done"
    /\ stalls[w] >= 1
    /\ qi[w] = 1 /\ Len(slices[w]) = 2
    /\ sink = <<>>

\* C13: run starts every one of its N threads before it waits, and returns
\* only when all of them have ended: once run has returned no worker is
\* running, nobody holds the lock, and neither a worker nor the result file
\* changes any more; a worker that has ended stays ended.
C13_RunReturnsAfterAllWorkers ==
  [][/\ runPc' \in {"join", "returned"} => started' = num_threads'
     /\ \A w \in Workers :
          /\ (pc'[w] # "idle") <=> (runPc' # "create" /\ w <= started')
          /\ pc[w] = "done" => (pc'[w] = "done" /\ written'[w] = written[w])
     /\ runPc' = "returned" =>
          /\ \A w \in Workers : pc'[w] = "done"
          /\ lock' = None
     /\ runPc = "returned" =>
          (runPc' = "returned" /\ pc' = pc /\ sink' = sink)]_vars

\* run has returned from a pool of two workers, one of which ended with a
\* fault
C13_Witness ==
  /\ runPc = "returned"
  /\ num_threads = 2
  /\ started = 2
  /\ \E w \in Workers : faulted[w]
  /\ \E w \in Workers : ~faulted[w] /\ written[w] # <<>>

\* handle_captcha of w was entered for a page that showed the challenge form
\* without the search bar at every look, and no browser call failed
NeverResolved(w) == unresolved[w] /\ ~cfaulted[w]

\* worker w is inside handle_captcha
InHandleCaptcha(w) == IF w \in Workers THEN pc[w] = "captcha" ELSE FALSE

\* handle_captcha of worker w has returned to get_yandex_links
Returned(w) == IF w \in Workers THEN pc[w] = "collect" ELSE FALSE

ExhaustedIfNeverResolved(w) ==
  IF w \in Workers
  THEN NeverResolved(w) => /\ final[w] = "exhausted"
                           /\ cattempts[w] = CAPTCHA_MAX_ATTEMPTS
  ELSE TRUE

\* C14: for a challenge page that never resolves, handle_captcha performs at
\* most CAPTCHA_MAX_ATTEMPTS cycles, and every handle_captcha that was entered
\* returns to its caller, in the exhausted state when the page never resolved
C14_NeverResolvingReturnsExhausted ==
  /\ [](\A w \in Workers : cattempts[w] <= CAPTCHA_MAX_ATTEMPTS)
  /\ \A w \in 1..MaxThreads :
       InHandleCaptcha(w) ~> (Returned(w) /\ ExhaustedIfNeverResolved(w))

\* what holds of C14 without the service: the cycles are bounded, and a
\* handle_captcha that returns from a page that never resolved is exhausted
\* after exactly CAPTCHA_MAX_ATTEMPTS cycles
CyclesBounded ==
  \A w \in Workers :
    /\ cattempts[w] \in 0..CAPTCHA_MAX_ATTEMPTS
    /\ Returned(w) => ExhaustedIfNeverResolved(w)

\* C15: a solve round in which the service fails or answers with a response
\* of the wrong shape is a failed round of its cycle: the cycle was counted
\* when it began and is one of the CAPTCHA_MAX_ATTEMPTS, the round goes on to
\* the solved check, the next round begins only through the loop test, which
\* counts again, and handle_captcha is left by its return only: no exception
\* reaches get_yandex_links or the worker.
C15_FailedRoundCountsAndIsCaught ==
  [][\A w \in Workers :
       /\ pc[w] = "captcha"
          => /\ pc'[w] \in {"captcha", "collect"}
             /\ faulted'[w] = faulted[w]
             /\ sattempt'[w] = sattempt[w]
       /\ (pc[w] = "captcha" /\ answer[w] = "none"
             /\ answer'[w] \in {"failed", "malformed"})
          => /\ cattempts[w] \in 1..CAPTCHA_MAX_ATTEMPTS
             /\ cattempts'[w] = cattempts[w]
             /\ pc'[w] = "captcha"
             /\ cpc'[w] \in {"act", "check"}
       /\ (pc[w] = "captcha" /\ answer[w] \in {"failed", "malformed"})
          => /\ cpc[w] \in {"act", "check", "loop", "after_loop"}
             /\ cpc'[w] # "solve"
       /\ (cpc'[w] = "classify" /\ pc[w] = "captcha")
          => /\ cpc[w] = "loop"
             /\ cattempts'[w] = cattempts[w] + 1
             /\ answer'[w] = "none"
       /\ (cpc'[w] = "solve" /\ pc[w] = "captcha")
          => (cpc[w] = "classify" /\ answer[w] = "none")]_vars

\* the fifth round got a response of the wrong shape and was acted on
C15_Witness ==
  \E w \in Workers :
    /\ pc[w] = "captcha" /\ cpc[w] = "check"
    /\ answer[w] = "malformed"
    /\ cattempts[w] = CAPTCHA_MAX_ATTEMPTS

\* C16: however handle_captcha ends (the click failed, the form did not
\* appear, the cycles are exhausted, the loop ended), get_yandex_links goes on
\* to _find_and_check_links in the same iteration of its loop: the attempt
\* counters do not move on the return, and the step after the return is the
\* link extraction, which ends the iteration as an extraction without
\* challenge does.
C16_ReturnProceedsToExtraction ==
  [][\A w \in Workers :
       /\ (pc[w] = "captcha" /\ pc'[w] # "captcha")
          => /\ pc'[w] = "collect"
             /\ final'[w] \in {"aborted", "no_form", "exhausted", "ended"}
             /\ sattempt'[w] = sattempt[w]
             /\ attempt'[w] = attempt[w]
             /\ calls'[w] = calls[w]
       /\ (pc'[w] = "collect" /\ pc[w] # "collect") => pc[w] = "captcha"
       /\ pc[w] = "collect"
          => /\ sattempt'[w] = sattempt[w]
             /\ final'[w] = final[w]
             /\ \E page \in SolverEnv.pages :
                  LET c == CollectAndFilterByHttps(page, MaxLinksPerQuery) IN
                  /\ inspected'[w] = c.count
                  /\ IF c.links # <<>>
                     THEN pc'[w] = "batch_enter" /\ candidates'[w] = c.links
                     ELSE pc'[w] = IF sattempt[w] < SEARCH_MAX_ATTEMPTS
                                   THEN "search" ELSE "returned"]_vars

\* the solver was exhausted in the first iteration, the extraction of that
\* iteration ran and found nothing, and the second iteration is about to begin
C16_Witness ==
  \E w \in Workers :
    /\ final[w] = "exhausted"
    /\ pc[w] = "search"
    /\ sattempt[w] = 1
    /\ inspected[w] = 0

\* the items of a list that _collect_and_filter_by_https inspects: the first
\* max_links items that have an href
RECURSIVE InspectedItems(_, _)
InspectedItems(items, max_links) ==
  IF items = <<>> \/ max_links = 0 THEN <<>>
  ELSE IF Head(items) = NoHref THEN InspectedItems(Tail(items), max_links)
  ELSE <<Head(items)>> \o InspectedItems(Tail(items), max_links - 1)

\* what the transport check is to keep of one candidate: a secure candidate
\* itself; of another one the secure rewriting when the HEAD request to it is
\* answered with a status below 400; nothing otherwise
KeptOf(url) ==
  IF url.scheme = "https" THEN <<url>>
  ELSE IF HeadStatus(ReplaceScheme(url)) \in 1..399
  THEN <<ReplaceScheme(url)>>
  ELSE <<>>

\* the HEAD request the transport check is to send for one candidate
ProbeOf(url) ==
  IF url.scheme = "https" THEN <<>> ELSE <<ReplaceScheme(url)>>

RECURSIVE FlatMap(_, _)
FlatMap(Op(_), seq) ==
  IF seq = <<>> THEN <<>> ELSE Op(Head(seq)) \o FlatMap(Op, Tail(seq))

\* C17: of the inspected candidates the transport check keeps a secure one
\* unchanged and sends no request for it; for every other one it sends one
\* HEAD request to the rewritten URL and keeps the rewritten URL exactly when
\* the answer has a status below 400; a request that fails or is answered
\* with an error drops that candidate and no other.
C17_SecureKeptOthersProbed ==
  phaseOut # <<>> =>
    LET inspectedItems == InspectedItems(phaseIn, MaxLinksPerQuery) IN
    /\ phaseOut[1].count = Len(inspectedItems)
    /\ phaseOut[1].links = FlatMap(KeptOf, inspectedItems)
    /\ phaseOut[1].heads = FlatMap(ProbeOf, inspectedItems)
    /\ \A i \in 1..Len(phaseOut[1].links) :
         phaseOut[1].links[i].scheme = "https"

\* the request for the first candidate failed and the candidate is dropped;
\* the second candidate is insecure and kept rewritten
C17_Witness ==
  /\ phaseIn = <<Url("http", "down"), NoHref, Url("http", "plain")>>
  /\ phaseOut # <<>>
  /\ phaseOut[1].links = <<Url("https", "plain")>>
  /\ phaseOut[1].heads = <<Url("https", "down"), Url("https", "plain")>>

\* how often v occurs in seq
Occurrences(seq, v) == Len(SelectSeq(seq, LAMBDA x : x = v))

\* the HEAD request to the secure rewriting of candidate url raises, and a GET
\* request to it is answered with a status below 400
HeadFailsGetAnswers(url) ==
  /\ url.scheme # "https"
  /\ HeadStatus(ReplaceScheme(url)) = NoResponse
  /\ GetStatus(ReplaceScheme(url)) \in 1..399

\* C18: an inspected candidate whose secure rewriting fails the HEAD request
\* and answers a GET request survives the transport check
C18_GetFallbackKeeps ==
  phaseOut # <<>> =>
    LET inspectedItems == InspectedItems(phaseIn, MaxLinksPerQuery) IN
    \A i \in 1..Len(inspectedItems) :
      HeadFailsGetAnswers(inspectedItems[i])
        => Occurrences(phaseOut[1].links, ReplaceScheme(inspectedItems[i])) > 0

\* C18 amended: the existence check is one HEAD request and nothing else; a
\* candidate whose secure rewriting fails the HEAD request is dropped, whether
\* a GET request would be answered or not: the rewriting is among the kept
\* links only as often as it was itself an inspected secure candidate.
C18_HeadFailureDrops ==
  phaseOut # <<>> =>
    LET inspectedItems == InspectedItems(phaseIn, MaxLinksPerQuery) IN
    \A i \in 1..Len(inspectedItems) :
      LET url == inspectedItems[i] IN
      (url.scheme # "https" /\ HeadStatus(ReplaceScheme(url)) = NoResponse)
        => /\ Occurrences(phaseOut[1].links, ReplaceScheme(url))
                = IF ReplaceScheme(url).scheme = "https"
                  THEN Occurrences(inspectedItems, ReplaceScheme(url))
                  ELSE 0
           /\ Occurrences(phaseOut[1].heads, ReplaceScheme(url))
                = Occurrences(inspectedItems, url)

\* the only candidate fails the HEAD request, would answer a GET request, and
\* is dropped after its one HEAD request
C18_Witness ==
  /\ phaseIn = <<Url("http", "nohead")>>
  /\ HeadFailsGetAnswers(phaseIn[1])
  /\ phaseOut # <<>>
  /\ phaseOut[1].links = <<>>
  /\ phaseOut[1].heads = <<Url("https", "nohead")>>

\* C19: with the same answers of the sites, the transport check applied to
\* the links that survived a pass returns exactly these links, in the same
\* order, and inspects every one of them; it sends no request for them.
C19_SecondPassKeepsSurvivors ==
  \A k \in 2..Len(phaseOut) :
    /\ phaseOut[k].links = phaseOut[k - 1].links
    /\ {phaseOut[k].links[i] : i \in 1..Len(phaseOut[k].links)}
         = {phaseOut[k - 1].links[i] : i \in 1..Len(phaseOut[k - 1].links)}
    /\ phaseOut[k].count = Len(phaseOut[k - 1].links)
    /\ phaseOut[k].heads = <<>>

\* the first pass dropped one candidate and rewrote the other, and the second
\* pass has returned the survivor of the first
C19_Witness ==
  /\ phaseIn = <<Url("http", "gone"), Url("http", "plain")>>
  /\ Len(phaseOut) >= 2
  /\ phaseOut[1].links = <<Url("https", "plain")>>
  /\ phaseOut[2].links = phaseOut[1].links

\* C20: a link of the batch whose direct fetch answers 200 with a signature
\* in the body gets the result True in the iteration that checks it, and that
\* iteration calls driver.get of the shared browser session for no URL and
\* leaves the session as it is; no such link is ever among the URLs the
\* session of the batch navigated to.
C20_StaticHitNeverNavigates ==
  [][\A w \in Workers :
       /\ (pc[w] = "batch" /\ bi'[w] = bi[w] + 1
             /\ StaticMetrika(candidates[w][bi[w] + 1]))
          => /\ navigated'[w] = navigated[w]
             /\ \E i \in 1..Len(results'[w]) :
                  results'[w][i] = [url |-> candidates[w][bi[w] + 1],
                                    has |-> TRUE]
             /\ chrome' = chrome
             /\ openSessions' = openSessions
       /\ \A i \in 1..Len(navigated'[w]) : ~StaticMetrika(navigated'[w][i])
       /\ Len(navigated'[w]) <= bi'[w]]_vars

\* both links of the batch are checked: the first by its fetched body, the
\* second in the open browser session, which navigated to the second only
C20_Witness ==
  \E w \in Workers :
    /\ pc[w] = "batch"
    /\ chrome[w] \in openSessions
    /\ candidates[w] = <<Url("https", "static"), Url("https", "js")>>
    /\ bi[w] = 2
    /\ results[w] = <<[url |-> Url("https", "static"), has |-> TRUE],
                      [url |-> Url("https", "js"), has |-> TRUE]>>
    /\ navigated[w] = <<Url("https", "js")>>

\* the keys of a dict, and the value of key k in it
DictKeys(d) == {d[i].url : i \in 1..Len(d)}
DictGet(d, k) == d[CHOOSE i \in 1..Len(d) : d[i].url = k].has

\* worker w checks the next link of its batch in this step
ChecksLink(w) == pc[w] = "batch" /\ bi'[w] = bi[w] + 1

\* C21: a link of the batch that carries the marker and is marked invalid met
\* its error on a session that was open when its check began: no link is
\* marked invalid for what happened on an earlier link
C21_VerdictIndependentOfEarlierErrors ==
  [][\A w \in Workers :
       ChecksLink(w) =>
         LET url == candidates[w][bi[w] + 1] IN
         /\ url \in DictKeys(results'[w])
         /\ (RenderedMetrika(url) /\ ~DictGet(results'[w], url))
              => chrome[w] \in openSessions]_vars

\* C21 amended: the batch is never aborted: every link checked so far has a
\* verdict, the check of a link changes the verdict of that link only, a
\* link found by the direct fetch is valid whatever happened before, and a
\* link that needs the browser gets the verdict of its own page when its check
\* runs on an open session without an error; it is marked invalid when the
\* session is gone, which is the case after a failed recreation.
C21_BatchGoesOnSessionPermitting ==
  [][\A w \in Workers :
       ChecksLink(w) =>
         LET url == candidates[w][bi[w] + 1]
             verdict == DictGet(results'[w], url)
         IN
         /\ pc'[w] = "batch"
         /\ DictKeys(results'[w])
              = {candidates[w][i] : i \in 1..bi'[w]}
         /\ \A k \in DictKeys(results[w]) \ {url} :
              DictGet(results'[w], k) = DictGet(results[w], k)
         /\ StaticMetrika(url) => verdict
         /\ verdict => RenderedMetrika(url)
         /\ (~StaticMetrika(url) /\ chrome[w] \notin openSessions)
              => ~verdict
         /\ (verdict /\ ~StaticMetrika(url))
              => /\ chrome[w] \in openSessions
                 /\ chrome'[w] = chrome[w]
                 /\ openSessions' = openSessions]_vars

\* the first link met a WebDriverException and the session could not be
\* replaced; the second link carries the marker in its rendered page and is
\* marked invalid on the dead session
C21_Witness ==
  \E w \in Workers :
    /\ pc[w] = "batch"
    /\ candidates[w] = <<Url("https", "plain"), Url("https", "js")>>
    /\ bi[w] = 2
    /\ chrome[w] \notin openSessions
    /\ results[w] = <<[url |-> Url("https", "plain"), has |-> FALSE],
                      [url |-> Url("https", "js"), has |-> FALSE]>>

FixtureLinks ==
  SubSeq(<<Url("https", "static"), Url("https", "js")>>, 1,
         Min(2, MaxLinksPerQuery))

\* the links of the lines written for query q, in file order
LinksFor(q) ==
  LET ofQuery == SelectSeq(sink, LAMBDA l : l.query = q) IN
  [i \in 1..Len(ofQuery) |-> ofQuery[i].link]

\* C23: when every search answers with the fixture page, whose candidates all
\* validate, and the run had no stall and no fault, then after run has
\* returned the result file holds for every query of the backlog exactly the
\* validated links of its page, and nothing else; the queries' lines are in
\* any order.
C23_SinkHoldsEveryValidatedLink ==
  (runPc = "returned" /\ disturbed = 0) =>
    /\ \A q \in 1..Len(queries) : LinksFor(queries[q]) = FixtureLinks
    /\ Len(sink) = Len(queries) * Len(FixtureLinks)
    /\ \A w \in Workers : ~faulted[w] /\ stalls[w] = 0

\* two workers have finished a backlog of two queries without a disturbance
C23_Witness ==
  /\ runPc = "returned"
  /\ disturbed = 0
  /\ num_threads = 2
  /\ Len(queries) = 2
  /\ Len(sink) = 2 * Len(FixtureLinks)
  /\ {sink[i].worker : i \in 1..Len(sink)} = {1, 2}

\* slice k is a run of consecutive queries of the backlog
Contiguous(k) ==
  \E a \in 0..Len(queries) :
    /\ a + Len(slices[k]) <= Len(queries)
    /\ slices[k] = SubSeq(queries, a + 1, a + Len(slices[k]))

\* the position of query q in the slice of worker w
PositionIn(w, q) == CHOOSE j \in 1..Len(slices[w]) : slices[w][j] = q

\* the slices are made and are contiguous, and what each worker has written
\* follows the order of its slice
SlicesInOrder ==
  runPc # "create" =>
    /\ \A k \in 1..num_threads : Contiguous(k)
    /\ \A i, j \in 1..Len(sink) :
         (i < j /\ sink[i].worker = sink[j].worker) =>
           PositionIn(sink[i].worker, sink[i].query)
             <= PositionIn(sink[j].worker, sink[j].query)
    /\ \A i \in 1..Len(sink) :
         PositionIn(sink[i].worker, sink[i].query) <= qi[sink[i].worker]

\* no thread is started before the slices are made, the slices never change
\* afterwards, and a worker moves to the next query of its slice only from
\* the head of its loop, one position at a time
SliceStep ==
  /\ started' > 0 => (runPc # "create" /\ slices' = slices)
  /\ \A w \in Workers :
       qi'[w] # qi[w] =>
         /\ qi'[w] = qi[w] + 1
         /\ qi'[w] <= Len(slices[w])
         /\ pc[w] = "loop"
         /\ pc'[w] = "attempt"

\* C24: the slices are contiguous runs of the backlog and are fixed before
\* any worker is started; a worker takes the queries of its slice strictly
\* in input order, moving to query j + 1 only after the attempts of query j
\* have ended.
C24_SliceProcessedInInputOrder == []SlicesInOrder /\ [][SliceStep]_vars

\* one worker has written the lines of the first query of its slice and then
\* those of the second
C24_Witness ==
  /\ runPc # "create"
  /\ num_threads = 1
  /\ Len(slices[1]) = 2
  /\ qi[1] = 2
  /\ Len(sink) = 2 * Len(FixtureLinks)
  /\ sink[1].query = slices[1][1]
  /\ sink[Len(sink)].query = slices[1][2]

\* worker w decides the kind of the challenge in this step
Classifies(w) == cpc[w] = "classify" /\ kind'[w] # "none"

\* C25: the kind a cycle finds follows the fixed priority image, text,
\* puzzle over the markers of the page, and, the marker lookups working, a
\* cycle is unclassified only when none of the three markers is on the page
\* and the search bar is absent.
C25_ClassificationByPriority ==
  [][\A w \in Workers :
       Classifies(w) =>
         LET m == challenge[w].markers IN
         /\ kind'[w] = "image" <=> "image" \in m
         /\ kind'[w] = "text" <=> ("image" \notin m /\ "text" \in m)
         /\ kind'[w] = "puzzle" <=> (m = {"puzzle"})
         /\ kind'[w] \in {"solved", "unknown"} <=> (m = {})
         /\ kind'[w] = "solved" => challenge[w].solved
         /\ (kind'[w] = "unknown" /\ ~cfaulted'[w]) => ~challenge[w].solved
    ]_vars

\* a page with the image canvas and the text widget is taken as an image
\* challenge
C25_Witness ==
  \E w \in Workers :
    /\ cpc[w] = "solve"
    /\ kind[w] = "image"
    /\ challenge[w].markers = {"image", "text"}

\* the positions of handle_captcha inside a cycle of its loop
CyclePositions == {"classify", "solve", "poll", "act", "check"}

\* handle_captcha of worker w has just returned
JustReturned(w) == pc[w] = "collect" /\ cpc[w] = "idle"

\* a return before the loop has run no cycle and has no answer of the
\* service; inside a cycle the loop has counted at least one attempt
NoCycleBeforeLoop ==
  \A w \in Workers :
    /\ (JustReturned(w) /\ final[w] \in {"aborted", "no_form"}) =>
         (cattempts[w] = 0 /\ kind[w] = "none" /\ answer[w] = "none")
    /\ (pc[w] = "captcha" /\ cpc[w] \in CyclePositions) => cattempts[w] >= 1

\* a failed click, and a form that is not found, end handle_captcha at once
EarlyReturnStep ==
  \A w \in Workers :
    /\ (cpc[w] = "click" /\ cfaulted'[w]) =>
         (JustReturned(w)' /\ final'[w] = "aborted")
    /\ (cpc[w] = "wait_form" /\ (cfaulted'[w] \/ ~challenge[w].form)) =>
         (JustReturned(w)' /\ final'[w] = "no_form")
    /\ (cpc[w] \in {"click", "wait_form"} /\ cpc'[w] # cpc[w]) =>
         cpc'[w] \in {"wait_form", "loop", "idle"}

\* C26: when the click on the verification button fails, or the challenge
\* form is not found within the wait, handle_captcha returns without a cycle
\* of its loop and without a call of the solving service.
C26_EarlyReturnRunsNoCycle == []NoCycleBeforeLoop /\ [][EarlyReturnStep]_vars

\* handle_captcha has returned because the form did not appear after a
\* click that worked
C26_Witness ==
  \E w \in Workers :
    /\ JustReturned(w)
    /\ final[w] = "no_form"
    /\ ~challenge[w].form
    /\ ~cfaulted[w]

TypedKinds == {"image", "text", "puzzle"}

\* the positions of one solve round: the submission, the polls, the actions
RoundPositions == {"solve", "poll", "act"}

\* how handle_captcha moves through a cycle: a typed classification starts
\* the one solve round of the cycle, the round is entered from nowhere else,
\* it ends in the solved test, and only the solved test leads back to the
\* loop test and so to the next classification
RoundStep ==
  \A w \in Workers :
    /\ (Classifies(w) /\ kind'[w] \in TypedKinds) => cpc'[w] = "solve"
    /\ (cpc'[w] = "solve" /\ cpc[w] # "solve") =>
         (cpc[w] = "classify" /\ kind'[w] \in TypedKinds)
    /\ (cpc[w] = "solve" /\ cpc'[w] # "solve") => cpc'[w] \in {"poll", "check"}
    /\ (cpc[w] = "poll" /\ cpc'[w] # "poll") => cpc'[w] \in {"act", "check"}
    /\ (cpc[w] = "act" /\ cpc'[w] # "act") => cpc'[w] = "check"
    /\ (cpc'[w] = "classify" /\ cpc[w] # "classify") =>
         (cpc[w] = "loop" /\ cattempts'[w] = cattempts[w] + 1)
    /\ (cpc'[w] = "loop" /\ cpc[w] # "loop") =>
         cpc[w] \in {"wait_form", "check"}
    /\ (cpc[w] \in RoundPositions \/ cpc'[w] \in RoundPositions) =>
         cattempts'[w] = cattempts[w]

\* C27: a cycle that finds a typed challenge runs one solve round, with one
\* submission to the service, and the solved test follows the round before
\* the loop classifies again: no two solve rounds without the solved test
\* between them.
C27_OneRoundThenClearedCheck == [][RoundStep]_vars

\* the second cycle of a handle_captcha call has found a typed challenge
\* and starts its solve round
C27_Witness ==
  \E w \in Workers :
    /\ pc[w] = "captcha"
    /\ cpc[w] = "solve"
    /\ cattempts[w] = 2
    /\ kind[w] \in TypedKinds

\* in a cycle that found no kind the solver has submitted, clicked and typed
\* nothing and has no answer, and the cycle was counted
UnclassifiedIdle ==
  \A w \in Workers :
    kind[w] = "unknown" =>
      /\ actions[w] = <<>>
      /\ answer[w] = "none"
      /\ cattempts[w] \in 1..CAPTCHA_MAX_ATTEMPTS
      /\ cpc[w] \in {"check", "loop", "after_loop", "idle"}

\* an unclassified cycle goes from the classification to the solved test and
\* from there to the loop test, with its attempt counted
UnclassifiedStep ==
  \A w \in Workers :
    /\ (Classifies(w) /\ kind'[w] = "unknown") =>
         (cpc'[w] = "check" /\ cattempts'[w] = cattempts[w])
    /\ (kind[w] = "unknown" /\ cpc[w] = "check" /\ cpc'[w] # "check") =>
         (cpc'[w] \in {"loop", "after_loop"} /\ cattempts'[w] = cattempts[w])
    /\ (cpc[w] = "loop" /\ cpc'[w] = "classify") =>
         cattempts'[w] = cattempts[w] + 1

\* C28: a cycle that finds no kind of challenge submits nothing to the
\* service, clicks nothing and types nothing; it goes on to the solved test
\* and the next loop test, and it is one of the CAPTCHA_MAX_ATTEMPTS cycles.
C28_UnclassifiedCycleOnlyWaits == []UnclassifiedIdle /\ [][UnclassifiedStep]_vars

\* the last of the allowed cycles found no kind of challenge, and
\* handle_captcha ends exhausted
C28_Witness ==
  \E w \in Workers :
    /\ pc[w] = "captcha"
    /\ cpc[w] = "after_loop"
    /\ kind[w] = "unknown"
    /\ cattempts[w] = CAPTCHA_MAX_ATTEMPTS
    /\ actions[w] = <<>>

\* the solve round of the current cycle of worker w is over
RoundOver(w) == cpc[w] \in {"check", "loop", "after_loop", "idle"}

\* the clicks among the actions of the current cycle of worker w
ClicksOf(w) == SelectSeq(actions[w], LAMBDA e : e # "submit")

IsPrefix(a, b) == Len(a) <= Len(b) /\ a = SubSeq(b, 1, Len(a))

\* C29: in a puzzle cycle whose round got the repeat count c from the
\* service, the solver clicks the shift button c times and then the
\* puzzle's confirming element once, and with a browser call failing it
\* clicks a part of that sequence from its start; when the service gives no
\* result, nothing is clicked.
C29_PuzzleShiftsThenConfirm ==
  \A w \in Workers :
    (kind[w] = "puzzle" /\ RoundOver(w)) =>
      LET whole == Repeat("shift", count[w]) \o <<"confirm_puzzle">> IN
      /\ answer[w] = "good" =>
           /\ IsPrefix(ClicksOf(w), whole)
           /\ ~cfaulted[w] => ClicksOf(w) = whole
           /\ actions[w] = <<"submit">> \o ClicksOf(w)
      /\ answer[w] # "good" => ClicksOf(w) = <<>>

\* a puzzle answered with the count 2: two shifts, then the confirming click
C29_Witness ==
  \E w \in Workers :
    /\ kind[w] = "puzzle"
    /\ cpc[w] = "check"
    /\ answer[w] = "good"
    /\ count[w] = 2
    /\ actions[w] = <<"submit", "shift", "shift", "confirm_puzzle">>

\* the positions of an iteration of get_yandex_links after its search:
\* challenge solving, link extraction and validation
AfterSearchPositions == {"captcha", "collect", "batch_enter", "batch"}

\* C30: every search navigation of get_yandex_links runs under the search
\* timeout of 60 s, and while handle_captcha, the link extraction and the
\* validation run, the page-load timeout of the search session is the
\* relaxed 300 s: handle_captcha never runs under the search timeout.
C30_RelaxedTimeoutAfterSearch ==
  \A w \in Workers :
    /\ navUnder[w] \in {None, SEARCH_TIMEOUT}
    /\ pc[w] \in AfterSearchPositions =>
         /\ navUnder[w] = SEARCH_TIMEOUT
         /\ timeout[w] = DEFAULT_TIMEOUT_AFTER_SEARCH
    /\ SEARCH_TIMEOUT = 60 /\ DEFAULT_TIMEOUT_AFTER_SEARCH = 300

\* a solve round of handle_captcha runs under the relaxed timeout in the
\* second iteration of get_yandex_links, whose search ran under the short one
C30_Witness ==
  \E w \in Workers :
    /\ pc[w] = "captcha"
    /\ cpc[w] = "solve"
    /\ sattempt[w] = 2
    /\ navUnder[w] = SEARCH_TIMEOUT
    /\ timeout[w] = DEFAULT_TIMEOUT_AFTER_SEARCH

\* a is b with some elements left out: the elements of a appear in b in the
\* same order
KeepsOrder(a, b) ==
  \E f \in [1..Len(a) -> 1..Len(b)] :
    /\ \A i \in 1..Len(a) : a[i] = b[f[i]]
    /\ \A i, j \in 1..Len(a) : i < j => f[i] < f[j]

\* the secure form of every item of a result list, in ranking order
SecureForms(items) == [i \in 1..Len(items) |-> ReplaceScheme(items[i])]

\* the netlocs of the items of a result list, in ranking order
NetlocsOf(items) == [i \in 1..Len(items) |-> items[i].netloc]

\* C31: the extraction of the top pipeline inspects at most max_links items
\* and returns at most max_links candidates, in the order of the result
\* list; the extraction of the service pipeline returns at most max_links
\* links, every one with the domain contained in its netloc, in the order of
\* the result list.
C31_ExtractionBoundedOrderedFiltered ==
  /\ phaseOut # <<>> =>
       /\ phaseOut[1].count <= MaxLinksPerQuery
       /\ Len(phaseOut[1].links) <= phaseOut[1].count
       /\ KeepsOrder(phaseOut[1].links, SecureForms(phaseIn))
  /\ matchOut # <<>> =>
       /\ Len(matchOut[1]) <= MaxLinksPerQuery
       /\ KeepsOrder(matchOut[1], NetlocsOf(matchIn.items))
       /\ \A i \in 1..Len(matchOut[1]) :
            \E k \in 0..(Len(matchOut[1][i]) - Len(matchIn.domain)) :
              SubSeq(matchOut[1][i], k + 1, k + Len(matchIn.domain))
                = matchIn.domain

\* of three links the first does not hold the domain, the second and third
\* do, and max_links is reached with them
C31_Witness ==
  /\ matchIn.domain = <<"a">>
  /\ matchIn.items = <<[href |-> TRUE, netloc |-> <<"b", "b">>],
                       [href |-> TRUE, netloc |-> <<"b", "a">>],
                       [href |-> TRUE, netloc |-> <<"a">>]>>
  /\ matchOut = <<(<<(<<"b", "a">>), (<<"a">>)>>)>>

\* the stalls the first n workers have handled
RECURSIVE TotalStalls(_)
TotalStalls(n) == IF n = 0 THEN 0 ELSE stalls[n] + TotalStalls(n - 1)

\* every disturbance of the run was a stall: no call has raised
NothingRaised == disturbed = TotalStalls(num_threads)

\* run has returned and, unless a call raised, no browser session is open
AllClosedAtEnd ==
  (runPc = "returned" /\ NothingRaised) => openSessions = {}

\* a session is replaced only once it is closed, and a worker that ends with
\* its session still open has called quit on it and quit has raised
ClosingStep ==
  \A w \in Workers :
    /\ (pc[w] = "stall_init" /\ driver'[w] # driver[w]) =>
         (driver[w] \notin openSessions /\ driver'[w] \in openSessions')
    /\ (pc[w] = "finally" /\ pc'[w] = "done" /\ driver[w] \in openSessions') =>
         disturbed' = disturbed + 1
    /\ (pc[w] = "finally" /\ pc'[w] = "done" /\ disturbed' = disturbed) =>
         openSessions' = openSessions \ {driver[w]}

\* C32: a worker quits the session it replaces before it creates the
\* replacement, and on its way out, regular or after an exception, it calls
\* quit on the session it holds; when no call has raised, no browser session
\* is open once all workers have finished.
C32_SessionsClosedAtExit == []AllClosedAtEnd /\ [][ClosingStep]_vars

\* the run is over after a stall whose session was replaced, and nothing is
\* left open
C32_Witness ==
  /\ runPc = "returned"
  /\ TotalStalls(num_threads) = 1
  /\ NothingRaised
  /\ \E w \in Workers : initCalls[w] = 2
  /\ openSessions = {}

\* worker w gets the answer to a poll in this step
Polls(w) == cpc[w] = "poll" /\ <<polled[w], tick[w]>>' # <<polled[w], tick[w]>>

NavigationsBounded ==
  \A w \in Workers :
    /\ calls[w] <= MAX_ATTEMPTS_PER_QUERY
    /\ sattempt[w] <= SEARCH_MAX_ATTEMPTS
    /\ navs[w] <= MAX_ATTEMPTS_PER_QUERY * SEARCH_MAX_ATTEMPTS
    /\ navs[w] <= 9

\* handle_captcha is entered only by an iteration that has navigated, once
\* per navigation, and a navigation belongs to a call of the worker
SolverEntryStep ==
  \A w \in Workers :
    /\ (cpc[w] = "idle" /\ cpc'[w] # "idle") =>
         (pc[w] = "search" /\ navs'[w] = navs[w] + 1)
    /\ navs'[w] > navs[w] =>
         (navs'[w] = navs[w] + 1 /\ sattempt'[w] = sattempt[w] + 1
            /\ calls'[w] = calls[w] /\ calls[w] >= 1)

\* C34: the attempts of the worker and the iterations of the collector are
\* nested: for one query the search endpoint is navigated at most
\* MAX_ATTEMPTS_PER_QUERY * SEARCH_MAX_ATTEMPTS = 9 times and handle_captcha
\* is called at most once per navigation; the bound of 3 is on the calls of
\* the worker, and more than 3 navigations for one query do happen.
C34_NestedRetryBound == []NavigationsBounded /\ [][SolverEntryStep]_vars

\* the ninth navigation for a query, in the third call of the worker, has
\* met the verification button
C34_Witness ==
  \E w \in Workers :
    /\ pc[w] = "captcha"
    /\ cpc[w] = "click"
    /\ calls[w] = 3
    /\ navs[w] = 9

\* the lines worker w has written for query q
LinesFor(w, q) ==
  LET Same(l) == l.query = q IN SelectSeq(written[w], Same)

\* the positions of a worker that has left the attempt loop of its query, or
\* is writing inside it
WritingOrPast == {"write", "loop", "finally", "done"}

\* C35: for every query at most one attempt's links are appended to the
\* result file: the lines a worker has written for its query are the links of
\* the one attempt it is writing, in order, and once a line of the query is
\* written the worker makes no further attempt for that query.
C35_OneAttemptWrittenPerQuery ==
  \A w \in Workers :
    IF qi[w] >= 1
    THEN /\ LinesFor(w, CurrentQuery(w)) # <<>> => pc[w] \in WritingOrPast
         /\ pc[w] = "write"
            => LinesFor(w, CurrentQuery(w))
               = [i \in 1..wi[w] |-> Line(w, links[w][i])]
         /\ \A k \in 1..qi[w] :
              Len(LinesFor(w, slices[w][k])) <= MaxLinksPerQuery
    ELSE written[w] = <<>>

\* the second attempt for a query wrote its two links after the first one
\* failed or stalled, and the worker has left the attempt loop
C35_Witness ==
  \E w \in Workers :
    /\ pc[w] = "loop"
    /\ qi[w] >= 1
    /\ calls[w] = 2
    /\ Len(links[w]) = 2
    /\ LinesFor(w, slices[w][qi[w]]) = [i \in 1..2 |-> Line(w, links[w][i])]

\* the result pages of the two environments
AnswerPages == Pages \cup FixturePages

\* the links of a result page that survive the transport check: secure as
\* found, or rewritten to the secure scheme and answering the HEAD request
\* with a status below 400
PhaseASurvivors(page) ==
  FlatMap(KeptOf, InspectedItems(page, MaxLinksPerQuery))

SurvivedPhaseA(link) ==
  /\ link.scheme = "https"
  /\ \E page \in AnswerPages :
       \E i \in 1..Len(PhaseASurvivors(page)) : PhaseASurvivors(page)[i] = link

\* the marker can be found for the link: in the fetched body, or in the
\* rendered page (source signature or script probe)
PhaseBCanHold(link) == StaticMetrika(link) \/ RenderedMetrika(link)

PassedBothPhases ==
  /\ \A i \in 1..Len(sink) :
       SurvivedPhaseA(sink[i].link) /\ PhaseBCanHold(sink[i].link)
  /\ \A w \in Workers :
       /\ \A i \in 1..Len(links[w]) :
            SurvivedPhaseA(links[w][i]) /\ PhaseBCanHold(links[w][i])
       /\ \A i \in 1..Len(candidates[w]) : SurvivedPhaseA(candidates[w][i])
       /\ \A i \in 1..Len(results[w]) :
            /\ \E k \in 1..Len(candidates[w]) :
                 candidates[w][k] = results[w][i].url
            /\ results[w][i].has => PhaseBCanHold(results[w][i].url)

\* the result file changes only by a worker appending the next link of the
\* list its attempt returned
AppendsReturnedLink ==
  sink' # sink =>
    \E w \in Workers :
      /\ pc[w] = "write"
      /\ wi[w] < Len(links[w])
      /\ sink' = Append(sink, Line(w, links[w][wi[w] + 1]))

\* C36: every line the top pipeline appends to the result file is a link that
\* survived the transport check (secure as found, or rewritten to the secure
\* scheme with a HEAD answer below 400) and for which the marker check
\* returned True; no candidate that failed either phase is ever written.
C36_WrittenLinksPassedBothPhases ==
  []PassedBothPhases /\ [][AppendsReturnedLink]_vars

\* the file holds a rewritten link whose body carries the marker and a secure
\* link whose marker shows once rendered, and the secure link without the
\* marker that stood on the same page is not in it
C36_Witness ==
  /\ Len(sink) = 2
  /\ sink[1].link = Url("https", "static")
  /\ sink[2].link = Url("https", "js")
  /\ sink[1].query # sink[2].query

\* more threads than queries were asked for, and the threads are created
Oversubscribed == runPc # "create" /\ num_threads > Len(queries)

\* C37: when the thread count N exceeds the backlog length L >= 0,
\* _create_threads still creates N workers and the partition is complete and
\* disjoint: the first N - 1 workers get empty slices and the last gets the
\* whole backlog.
C37_LastWorkerGetsWholeBacklog ==
  Oversubscribed =>
    /\ DOMAIN slices = 1..num_threads
    /\ \A k \in 1..(num_threads - 1) : slices[k] = <<>>
    /\ slices[num_threads] = queries
    /\ \A q \in 1..Len(queries) :
         Cardinality({p \in SlicePositions : slices[p[1]][p[2]] = queries[q]})
           = 1

\* five threads were created for a backlog of three queries
C37_Witness ==
  /\ Oversubscribed
  /\ num_threads = 5
  /\ Len(queries) = 3
  /\ slices[5] = <<1, 2, 3>>

\* the call cannot get as far as a created task
NoTaskFor(in) ==
  \/ in.type \notin {"smart", "text", "puzzle"}
  \/ ~in.key
  \/ in.create # "created"

\* C38: solve_captcha never raises; for an unknown challenge type, a missing
\* API key or a failed task creation it returns a failure (success = false)
\* and the result endpoint is never polled.
C38_SolveCaptchaFailsWithoutPolling ==
  \A i \in 1..Len(capOut) :
    /\ ~capOut[i].raised
    /\ NoTaskFor(capIn)
       => /\ ~capOut[i].success
          /\ \A k \in 1..Len(capOut[i].requests) :
               capOut[i].requests[k] # "result"
    /\ (~capIn.key \/ capIn.type \notin {"smart", "text", "puzzle"})
       => capOut[i].requests = <<>>

\* a puzzle was sent without an API key in the environment: the call returned
\* a failure and sent nothing
C38_Witness ==
  /\ capIn.type = "puzzle"
  /\ ~capIn.key
  /\ capIn.create = "created"
  /\ capIn.result = "ready"
  /\ capOut = <<Response(FALSE, <<>>)>>

\* worker w leaves the entry of the marker batch in this step
LeavesBatchEntry(w) == pc[w] = "batch_enter" /\ pc'[w] # "batch_enter"

\* get_top_links returned to worker w as processed, with no link
ReturnedEmptyProcessed(w) ==
  pc[w] = "returned" /\ outcome[w] = "processed" /\ links[w] = <<>>

\* C39: if the shared browser session of a marker batch cannot be created,
\* the batch checks no link and yields no validated link, whatever the static
\* check would have found for its candidates; the search attempt is reported
\* as processed, so that the collector's loop is not repeated, and the worker
\* writes nothing and (unless the call stalled) goes on to the next query.
C39_NoSessionNoLinksStillProcessed ==
  [][\A w \in Workers :
       /\ LeavesBatchEntry(w) =>
            IF chrome'[w] # None
            THEN pc'[w] = "batch"
            ELSE /\ pc'[w] = "returned"
                 /\ links'[w] = <<>>
                 /\ processed'[w] = TRUE
                 /\ outcome'[w] = "processed"
                 /\ sattempt'[w] = sattempt[w]
                 /\ results'[w] = <<>>
                 /\ sink' = sink
       /\ (ReturnedEmptyProcessed(w) /\ pc'[w] # pc[w]) =>
            /\ sink' = sink
            /\ calls'[w] = calls[w]
            /\ pc'[w] = IF Stalled(elapsed[w]) THEN "stall_quit" ELSE "loop"]_vars

\* the session of the batch could not be created for the fixture page, whose
\* first candidate carries the marker in its body: the only call for the query
\* returned nothing as processed and the worker has gone on, nothing written
C39_Witness ==
  \E w \in Workers :
    /\ pc[w] = "loop"
    /\ qi[w] = 1
    /\ calls[w] = 1
    /\ inspected[w] = 2
    /\ outcome[w] = "processed"
    /\ links[w] = <<>>
    /\ created[w] = 0
    /\ stalls[w] = 0
    /\ disturbed = 1
    /\ written[w] = <<>>

\* the positions at which get_top_links works on the worker's search session
OnSearchSession == {"search", "captcha", "collect", "batch_enter", "batch"}

\* the last attempt of worker w's query stalled
LastAttemptStalled(w) ==
  calls[w] = MAX_ATTEMPTS_PER_QUERY /\ Stalled(elapsed[w])

SessionInUseIsOpen ==
  \A w \in Workers :
    /\ pc[w] \in OnSearchSession => driver[w] \in openSessions
    /\ (qi[w] >= 1 /\ LastAttemptStalled(w)
          /\ pc[w] \in {"returned", "stall_quit", "stall_init", "attempt",
                        "loop"})
       => LinesFor(w, CurrentQuery(w)) = <<>>

StallReplacesSession ==
  \A w \in Workers :
    /\ (pc[w] = "returned" /\ Stalled(elapsed[w]) /\ pc'[w] # pc[w])
       => (pc'[w] = "stall_quit" /\ sink' = sink)
    /\ (pc[w] = "stall_quit" /\ pc'[w] = "stall_init")
       => (driver[w] \notin openSessions' /\ driver'[w] = driver[w])
    /\ (pc[w] = "stall_init" /\ pc'[w] # pc[w] /\ pc'[w] # "finally")
       => /\ pc'[w] = "attempt"
          /\ driver'[w] # driver[w]
          /\ driver'[w] \notin openSessions
          /\ driver'[w] \in openSessions'
          /\ sink' = sink
    /\ (pc[w] = "attempt" /\ LastAttemptStalled(w) /\ pc'[w] # pc[w])
       => (pc'[w] = "loop" /\ sink' = sink /\ driver'[w] = driver[w])
    /\ driver'[w] # driver[w] => pc[w] \in {"init", "stall_init"}

\* C40: the stall handling replaces the session also when the stalled attempt
\* was the last attempt of the query: the query ends with nothing written, and
\* the next query of the slice starts on the freshly created session, never on
\* the session that stalled.
C40_LastStallStillReplacesSession ==
  []SessionInUseIsOpen /\ [][StallReplacesSession]_vars

\* the third call for the first of two queries stalled; the stalled session
\* is closed, a new one is open, nothing is written, and the worker is about
\* to take the second query
C40_Witness ==
  \E w \in Workers :
    /\ pc[w] = "loop"
    /\ qi[w] = 1
    /\ Len(slices[w]) = 2
    /\ LastAttemptStalled(w)
    /\ ~faulted[w]
    /\ initCalls[w] = 1 + stalls[w]
    /\ driver[w] \in openSessions
    /\ Cardinality(openSessions) = 1
    /\ written[w] = <<>>

====
